---- MODULE Spec2Model ----
(***************************************************************************)
(* A model of the atmosphere-ml training and inference scripts:            *)
(*   - the wildfire pipeline (train.js / predict.js of the wildfire model):*)
(*     positive loading, domain bounds, the shared key set, the three      *)
(*     negative-sample generators, dataset assembly, feature encoding,     *)
(*     model fit/save and predictFire;                                     *)
(*   - the pollution pipeline (pollution_prediction/train.js, predict.js); *)
(*   - the batch geocoder (main and parseCensusResponseCsv).               *)
(*                                                                         *)
(* Numbers.  Latitudes and longitudes are fixed-point integers counted in  *)
(* ticks; one degree is DegTicks ticks and the 4th decimal digit (the key  *)
(* precision of toFixed(4)) is SubKey ticks, so that two different raw     *)
(* coordinates can round to the same key.  Math.random() returns r in      *)
(* [0,1); it is modelled as k/RandSteps for k in 0..RandSteps-1 and as the *)
(* largest double below 1, for which sums are rounded as IEEE doubles are. *)
(* Scaled features are kept as exact fractions [num, den].                 *)
(***************************************************************************)
EXTENDS Integers, Sequences, FiniteSets, TLC

VARIABLES
    pc,                 \* position of the wildfire runTraining
    csvRows,            \* rows of firedata.csv as delivered by the CSV parser
    positiveData,       \* runTraining: positiveData
    bounding,           \* runTraining: bounding {latMin, latMax, lonMin, ...}
    fireSet,            \* runTraining: fireSet, the shared key set
    totalPos,           \* runTraining: totalPos
    counts,             \* runTraining: totalNeg, localNegCount, globalNegCount, neverFireNegCount
    negatives,          \* the running generator's local array `negatives`
    attempts,           \* the running generator's local counter `attempts`
    zeroFireCells,      \* createNeverFireNegatives: zeroFireCells
    draw,               \* locals of the generator's last loop iteration
    localNegatives,     \* runTraining: localNegatives
    globalNegatives,    \* runTraining: globalNegatives
    neverFireNegatives, \* runTraining: neverFireNegatives
    fullData,           \* runTraining: fullData
    XAll,               \* runTraining: XAll, the encoded feature rows
    modelFile,          \* what ./wildfire-model holds on disk
    fireQuery,          \* predictFire: its last call (bounds used, input tensor)
    ppc,                \* position of the pollution runTraining
    pollCsv,            \* rows of pollution_2000_2023_with_coords.csv
    hostTz,             \* the host's time zone: local time minus UTC, in hours
    rows,               \* pollution runTraining: rows
    globalMinYear,      \* train.js: let globalMinYear
    globalMaxYear,      \* train.js: let globalMaxYear
    allFeatures,        \* pollution runTraining: allFeatures
    allTargets,         \* pollution runTraining: allTargets
    pollModelFile,      \* what ./pollution-model holds on disk
    pollQuery,          \* runPredict: its last call (year bounds used, input tensor)
    enc,                \* one input encoded at the training and at the inference site
    gpc,                \* position of main of geocodeBatch.js
    inputCsv,           \* rows of pollution_2000_2023.csv
    allRows,            \* main: allRows
    chunkIndex,         \* main: the loop variable i
    batchResultCsv,     \* main: batchResultCsv of the last chunk sent
    resultsMap,         \* main: resultsMap of the last chunk sent
    finalResults,       \* main: finalResults
    outputCsv           \* what pollution_2000_2023_with_coords.csv holds on disk

wvars == << pc, csvRows, positiveData, bounding, fireSet, totalPos, counts, negatives,
            attempts, zeroFireCells, draw, localNegatives, globalNegatives,
            neverFireNegatives, fullData, XAll, modelFile, fireQuery >>

pvars == << ppc, pollCsv, hostTz, rows, globalMinYear, globalMaxYear, allFeatures,
            allTargets, pollModelFile, pollQuery >>

gvars == << gpc, inputCsv, allRows, chunkIndex, batchResultCsv, resultsMap, finalResults,
            outputCsv >>

vars == << wvars, pvars, enc, gvars >>

-----------------------------------------------------------------------------
(* Bounds of the model *)

\* Math.random() takes the values k/RandSteps, k in 0..RandSteps-1, and the
\* largest value it can return, 1 - 2^-52, drawn as k = RandSteps
RandSteps == 1
\* the longest CSV file given to a loader on its own
MaxCsvRows == 3
\* ticks per 0.0001 degree (the resolution of raw coordinates below the key)
SubKey == 10
\* fixed-point denominator of the reals that Math.floor is applied to
FracUnit == 8
\* the largest number of positives the quota split is computed for on its own
MaxTotalPos == 60

Rand == 0 .. RandSteps
RandTop == RandSteps

-----------------------------------------------------------------------------
(* Program constants *)

KeyDecimals == 4        \* toFixed(4)
LOCAL_ATTEMPT_FACTOR == 5
GLOBAL_ATTEMPT_FACTOR == 10
NEVER_ATTEMPT_FACTOR == 10
DOY_OFFSET == 15
DOY_DENOM == 366
DOY_DRAW_MAX == 367

\* ticks per degree
DegTicks == (10 ^ KeyDecimals) * SubKey
Deg(d) == d * DegTicks
\* LAT_OFFSET_DEG = LON_OFFSET_DEG = 0.5
LAT_OFFSET_DEG == DegTicks \div 2
LON_OFFSET_DEG == DegTicks \div 2
\* LAT_CELL_SIZE = LON_CELL_SIZE = 1.0
LAT_CELL_SIZE == DegTicks
LON_CELL_SIZE == DegTicks

-----------------------------------------------------------------------------
(* Arithmetic helpers *)

Abs(x) == IF x < 0 THEN -x ELSE x
MathMax(a, b) == IF a > b THEN a ELSE b
MathMin(a, b) == IF a < b THEN a ELSE b
\* Math.floor of a fixed-point real with denominator FracUnit
MathFloor(x) == x \div FracUnit
\* Math.ceil(range / cellSize)
MathCeilDiv(x, d) == -((-x) \div d)

\* Number.prototype.toFixed(4) of a coordinate: the sign character and the
\* magnitude rounded to SubKey ticks, ties going to the larger magnitude.
\* (-0.00001).toFixed(4) is "-0.0000", a string different from "0.0000".
toFixed4(x) == << x < 0, (2 * Abs(x) + SubKey) \div (2 * SubKey) >>

\* Math.random() * x for x >= 0, to the fixed-point unit of x below: the
\* product with the largest value of Math.random() is the largest value under x
RandomTimes(k, x) ==
    IF k = RandTop THEN MathMax(x - 1, 0) ELSE (k * x) \div RandSteps

\* In IEEE double arithmetic (1 - 2^-52) * range is range less at most two
\* units in its last place, and adding minVal rounds the sum to maxVal when
\* that is under half a unit in the last place of maxVal: so it is whenever
\* the range is at most an eighth of |maxVal|.  Of wider ranges the scripts
\* have only (1, 367), where the sum is exact and stays below 367.
SumRoundsToMax(minVal, maxVal) == 8 * (maxVal - minVal) <= Abs(maxVal)

\* Math.random() * (maxVal - minVal) + minVal
randomInRange(k, minVal, maxVal) ==
    IF k = RandTop /\ SumRoundsToMax(minVal, maxVal) THEN maxVal
    ELSE RandomTimes(k, maxVal - minVal) + minVal

clamp(value, minVal, maxVal) == MathMax(minVal, MathMin(value, maxVal))

-----------------------------------------------------------------------------
(* firedata.csv: a field of a parsed row is <<>> when empty or absent and    *)
(* <<v>> when it holds the number v.                                         *)

Row(size, lat, lon, year, doy) ==
    [ FIRE_SIZE |-> <<size>>, LATITUDE |-> <<lat>>, LONGITUDE |-> <<lon>>,
      FIRE_YEAR |-> <<year>>, DISCOVERY_DOY |-> <<doy>> ]

Truthy(field) == field # <<>>
parseFloat(field) == field[1]

\* the callback of .on("data") in loadPositiveData, folded over the rows
RECURSIVE loadPositiveData(_)
loadPositiveData(csv) ==
    IF csv = <<>> THEN <<>>
    ELSE LET row == csv[Len(csv)]
             before == loadPositiveData(SubSeq(csv, 1, Len(csv) - 1))
         IN IF /\ Truthy(row.FIRE_SIZE)
               /\ Truthy(row.LATITUDE)
               /\ Truthy(row.LONGITUDE)
               /\ Truthy(row.FIRE_YEAR)
               /\ Truthy(row.DISCOVERY_DOY)
            THEN Append(before,
                        [ FIRE_SIZE |-> parseFloat(row.FIRE_SIZE),
                          LATITUDE |-> parseFloat(row.LATITUDE),
                          LONGITUDE |-> parseFloat(row.LONGITUDE),
                          FIRE_YEAR |-> parseFloat(row.FIRE_YEAR),
                          DISCOVERY_DOY |-> parseFloat(row.DISCOVERY_DOY) ])
            ELSE before

\* findMinMax: one linear scan; <<>> stands for +/-Infinity
RECURSIVE findMinMaxFrom(_, _, _, _)
findMinMaxFrom(arr, i, min, max) ==
    IF i > Len(arr) THEN [min |-> min, max |-> max]
    ELSE LET val == arr[i]
             min2 == IF min = <<>> \/ val < min[1] THEN <<val>> ELSE min
             max2 == IF max = <<>> \/ val > max[1] THEN <<val>> ELSE max
         IN findMinMaxFrom(arr, i + 1, min2, max2)

findMinMax(arr) == findMinMaxFrom(arr, 1, <<>>, <<>>)

ComputeBounding(posData) ==
    LET latValues == [i \in 1..Len(posData) |-> posData[i].LATITUDE]
        lonValues == [i \in 1..Len(posData) |-> posData[i].LONGITUDE]
        yearValues == [i \in 1..Len(posData) |-> posData[i].FIRE_YEAR]
    IN [ latMin |-> findMinMax(latValues).min[1],
         latMax |-> findMinMax(latValues).max[1],
         lonMin |-> findMinMax(lonValues).min[1],
         lonMax |-> findMinMax(lonValues).max[1],
         yearMin |-> findMinMax(yearValues).min[1],
         yearMax |-> findMinMax(yearValues).max[1] ]

\* the key string `${lat.toFixed(4)},${lon.toFixed(4)},${year},${doy}`
KeyOf(lat, lon, year, doy) == << toFixed4(lat), toFixed4(lon), year, doy >>
RowKey(row) == KeyOf(row.LATITUDE, row.LONGITUDE, row.FIRE_YEAR, row.DISCOVERY_DOY)

buildFireSet(posData) == { RowKey(posData[i]) : i \in 1..Len(posData) }

-----------------------------------------------------------------------------
(* runTraining, step 3: the quota split *)

\* Math.floor(totalNeg * 0.4) and Math.floor(totalNeg * 0.3): the doubles 0.4
\* and 0.3 are within 2^-54 (relative) of 4/10 and 3/10, so the product of a
\* dataset-sized integer rounds to the exact integer whenever n*4/10 or
\* n*3/10 is one; the floor is that of the exact quotient.
FloorOfTenths(n, tenths) == (n * tenths) \div 10

TotalNeg(nPos) == nPos
\* (LocalNegCountRound: the count with Math.round in the place of Math.floor)
LocalNegCountRound(totalNeg) == (totalNeg * 4 + 5) \div 10
LocalNegCount(totalNeg) == FloorOfTenths(totalNeg, 4)
\* the mutant rounds the 30% share up
GlobalNegCountCeil(totalNeg) == -((-(totalNeg * 3)) \div 10)
GlobalNegCount(totalNeg) == FloorOfTenths(totalNeg, 3)
NeverFireNegCount(totalNeg) ==
    totalNeg - LocalNegCount(totalNeg) - GlobalNegCount(totalNeg)

QuotaSplit(nPos) ==
    LET totalNeg == TotalNeg(nPos)
    IN [ totalNeg |-> totalNeg,
         localNegCount |-> LocalNegCount(totalNeg),
         globalNegCount |-> GlobalNegCount(totalNeg),
         neverFireNegCount |-> NeverFireNegCount(totalNeg) ]

-----------------------------------------------------------------------------
(* The negative generators: one loop iteration each *)

NegRow(lat, lon, year, doy) ==
    [ FIRE_SIZE |-> 0, LATITUDE |-> lat, LONGITUDE |-> lon,
      FIRE_YEAR |-> year, DISCOVERY_DOY |-> doy ]

\* fireSet.has(key)
FireSetHas(set, key) == key \in set

\* fireSet.add(key), with the mutant that forgets the key
FireSetAddForgets(set, key) == set
FireSetAdd(set, key) == set \cup {key}

\* the attempt budgets: maxAttempts = numLocalNeg * 5, numGlobalNeg * 10,
\* numSamplesWanted * 10
LocalMaxAttempts(numLocalNeg) == numLocalNeg * LOCAL_ATTEMPT_FACTOR
GlobalMaxAttempts(numGlobalNeg) == numGlobalNeg * GLOBAL_ATTEMPT_FACTOR
NeverMaxAttempts(numSamplesWanted) == numSamplesWanted * NEVER_ATTEMPT_FACTOR

\* the while conditions (the mutant of the first one tests attempts <= maxAttempts)
LocalLoopCondOffByOne(negs, att, numLocalNeg) ==
    Len(negs) < numLocalNeg /\ att <= LocalMaxAttempts(numLocalNeg)
LocalLoopCond(negs, att, numLocalNeg) ==
    Len(negs) < numLocalNeg /\ att < LocalMaxAttempts(numLocalNeg)
\* a global generator that takes over what the local generator fell short of
GlobalLoopCondMakesUp(negs, att, numGlobalNeg) ==
    LET quota == numGlobalNeg + (counts.localNegCount - Len(localNegatives))
    IN Len(negs) < quota /\ att < GlobalMaxAttempts(quota)
GlobalLoopCond(negs, att, numGlobalNeg) ==
    Len(negs) < numGlobalNeg /\ att < GlobalMaxAttempts(numGlobalNeg)
NeverLoopCond(negs, att, numSamplesWanted) ==
    Len(negs) < numSamplesWanted /\ att < NeverMaxAttempts(numSamplesWanted)

\* (Math.random() * 2 - 1) * offsetDeg
SymmetricOffset(k, offsetDeg) ==
    IF k = RandTop THEN offsetDeg - 1
    ELSE ((2 * k - RandSteps) * offsetDeg) \div RandSteps
\* Math.floor((Math.random() * 2 - 1) * DOY_OFFSET)
DoyOffsetDraw(k) ==
    MathFloor(SymmetricOffset(k, DOY_OFFSET * FracUnit))
\* Math.floor(Math.random() * n)
RandomIndex(k, n) == MathFloor(RandomTimes(k, n * FracUnit))
\* Math.floor(randomInRange(bounding.yearMin, bounding.yearMax + 1))
YearDraw(k, b) == MathFloor(randomInRange(k, b.yearMin * FracUnit, (b.yearMax + 1) * FracUnit))
\* Math.floor(randomInRange(1, 367))
DoyDraw(k) == MathFloor(randomInRange(k, 1 * FracUnit, DOY_DRAW_MAX * FracUnit))

\* if (newDoy < 1) newDoy = 1; if (newDoy > 366) newDoy = 366;
\* (the mutant has the second test only)
ClampDoyUpperOnly(newDoy) == IF newDoy > 366 THEN 366 ELSE newDoy
ClampDoy(newDoy) ==
    LET d1 == IF newDoy < 1 THEN 1 ELSE newDoy
    IN IF d1 > 366 THEN 366 ELSE d1

\* body of the while loop of createLocalNegativeSamples, up to the key
LocalCandidate(posData, b, kIdx, kLat, kLon, kDoy) ==
    LET idx == RandomIndex(kIdx, Len(posData))
        ref == posData[idx + 1]
        latOffset == SymmetricOffset(kLat, LAT_OFFSET_DEG)
        lonOffset == SymmetricOffset(kLon, LON_OFFSET_DEG)
        doyOffset == DoyOffsetDraw(kDoy)
        newLat == clamp(ref.LATITUDE + latOffset, b.latMin, b.latMax)
        newLon == clamp(ref.LONGITUDE + lonOffset, b.lonMin, b.lonMax)
        newYear == ref.FIRE_YEAR
        newDoy == ClampDoy(ref.DISCOVERY_DOY + doyOffset)
    IN [ gen |-> "local", idx |-> idx, ref |-> ref,
         latOffset |-> latOffset, lonOffset |-> lonOffset, doyOffset |-> doyOffset,
         row |-> NegRow(newLat, newLon, newYear, newDoy),
         key |-> KeyOf(newLat, newLon, newYear, newDoy) ]

\* body of the while loop of createGlobalNegativeSamples, up to the key
GlobalCandidate(b, kLat, kLon, kYear, kDoy) ==
    LET lat == randomInRange(kLat, b.latMin, b.latMax)
        lon == randomInRange(kLon, b.lonMin, b.lonMax)
        year == YearDraw(kYear, b)
        doy == DoyDraw(kDoy)
    IN [ gen |-> "global",
         row |-> NegRow(lat, lon, year, doy),
         key |-> KeyOf(lat, lon, year, doy) ]

-----------------------------------------------------------------------------
(* createNeverFireNegatives: the occupancy grid *)

latToCell(lat, b) == (lat - b.latMin) \div LAT_CELL_SIZE
lonToCell(lon, b) == (lon - b.lonMin) \div LON_CELL_SIZE
\* (cellCountLatFloor: the count with Math.floor in the place of Math.ceil)
cellCountLatFloor(b) == (b.latMax - b.latMin) \div LAT_CELL_SIZE
cellCountLat(b) == MathCeilDiv(b.latMax - b.latMin, LAT_CELL_SIZE)
cellCountLon(b) == MathCeilDiv(b.lonMax - b.lonMin, LON_CELL_SIZE)

\* fireCellMap after the loop over posData: cellId -> count
RECURSIVE fireCellMap(_, _)
fireCellMap(posData, b) ==
    IF posData = <<>> THEN << >>
    ELSE LET before == fireCellMap(SubSeq(posData, 1, Len(posData) - 1), b)
             row == posData[Len(posData)]
             cellId == << latToCell(row.LATITUDE, b), lonToCell(row.LONGITUDE, b) >>
         IN IF cellId \in DOMAIN before
            THEN [before EXCEPT ![cellId] = @ + 1]
            ELSE [c \in DOMAIN before \cup {cellId} |->
                     IF c = cellId THEN 1 ELSE before[c]]

\* fireCellMap.has(cellId); the mutant is the test without its negation
FireCellMapHasInverted(map, cellId) == cellId \notin DOMAIN map
FireCellMapHas(map, cellId) == cellId \in DOMAIN map

\* the two nested for loops that fill zeroFireCells, resumed at (cLat, cLon)
RECURSIVE zeroFireCellsFrom(_, _, _, _, _)
zeroFireCellsFrom(map, nLat, nLon, cLat, cLon) ==
    IF cLat >= nLat THEN <<>>
    ELSE IF cLon >= nLon THEN zeroFireCellsFrom(map, nLat, nLon, cLat + 1, 0)
    ELSE LET rest == zeroFireCellsFrom(map, nLat, nLon, cLat, cLon + 1)
         IN IF ~FireCellMapHas(map, << cLat, cLon >>)
            THEN << [cLat |-> cLat, cLon |-> cLon] >> \o rest
            ELSE rest

ZeroFireCells(posData, b) ==
    zeroFireCellsFrom(fireCellMap(posData, b), cellCountLat(b), cellCountLon(b), 0, 0)

\* if (zeroFireCells.length === 0): the early return
\* (NoZeroFireCellsNever: the test left out)
NoZeroFireCellsNever(cells) == FALSE
NoZeroFireCells(cells) == Len(cells) = 0

\* body of the while loop of createNeverFireNegatives, up to the key
NeverCandidate(cells, b, kIdx, kLat, kLon, kYear, kDoy) ==
    LET idx == RandomIndex(kIdx, Len(cells))
        cell == cells[idx + 1]
        latCellMin == b.latMin + cell.cLat * LAT_CELL_SIZE
        latCellMax == latCellMin + LAT_CELL_SIZE
        lat == randomInRange(kLat, latCellMin, latCellMax)
        latClamped == clamp(lat, b.latMin, b.latMax)
        lonCellMin == b.lonMin + cell.cLon * LON_CELL_SIZE
        lonCellMax == lonCellMin + LON_CELL_SIZE
        lon == randomInRange(kLon, lonCellMin, lonCellMax)
        lonClamped == clamp(lon, b.lonMin, b.lonMax)
        year == YearDraw(kYear, b)
        doy == DoyDraw(kDoy)
    IN [ gen |-> "never", cell |-> cell, lat |-> lat, lon |-> lon,
         row |-> NegRow(latClamped, lonClamped, year, doy),
         key |-> KeyOf(latClamped, lonClamped, year, doy) ]

-----------------------------------------------------------------------------
(* Feature encoding of the wildfire model: scaled values are fractions *)

Frac(n, d) == [num |-> n, den |-> d]

\* runTraining: minMaxScale(value, min, max)
minMaxScaleTrain(value, min, max) ==
    IF max = min THEN Frac(0, 1) ELSE Frac(value - min, max - min)

\* predictFire: minMaxScale(val, min, max)
minMaxScalePredict(val, min, max) ==
    IF max = min THEN Frac(0, 1) ELSE Frac(val - min, max - min)

\* runTraining: the row pushed on XAll
EncodeTrainRow(row, b) ==
    LET latScaled == minMaxScaleTrain(row.LATITUDE, b.latMin, b.latMax)
        lonScaled == minMaxScaleTrain(row.LONGITUDE, b.lonMin, b.lonMax)
        yearScaled == minMaxScaleTrain(row.FIRE_YEAR, b.yearMin, b.yearMax)
        doyScaled == Frac(row.DISCOVERY_DOY, DOY_DENOM)
    IN << latScaled, lonScaled, yearScaled, doyScaled >>

\* predictFire: the bounds written into the function
PredictFireBounds ==
    [ latMin |-> (179 * DegTicks) \div 10, latMax |-> (703 * DegTicks) \div 10,
      lonMin |-> Deg(-179), lonMax |-> -((653 * DegTicks) \div 10),
      yearMin |-> 1992, yearMax |-> 2020 ]

\* predictFire: the 1x4 input row
EncodePredictRow(lat, lon, year, doy, b) ==
    LET latScaled == minMaxScalePredict(lat, b.latMin, b.latMax)
        lonScaled == minMaxScalePredict(lon, b.lonMin, b.lonMax)
        yearScaled == minMaxScalePredict(year, b.yearMin, b.yearMax)
        doyScaled == Frac(doy, 366)
    IN << latScaled, lonScaled, yearScaled, doyScaled >>

-----------------------------------------------------------------------------
(* The pollution model: pollution_prediction/train.js and predict.js *)

\* A CSV field is empty (or absent), a text that is no number, or a number; the
\* Date field is empty, a text that is no date, or a calendar date YYYY-MM-DD.
Empty == [k |-> "empty"]
Text == [k |-> "text"]
NumField(v) == [k |-> "num", v |-> v]
DateField(y, m, d) == [k |-> "date", y |-> y, m |-> m, d |-> d]
\* !field of a string field
IsFalsy(field) == field.k = "empty"

\* JavaScript numbers of the pollution scripts: a finite number a/b, NaN,
\* +Infinity or -Infinity, or Math.sin / Math.cos (left uninterpreted) applied
\* to 2*PI*a/b
Num(v) == [t |-> "num", a |-> v, b |-> 1]
NaN == [t |-> "nan", a |-> 0, b |-> 0]
Infinity(sign) == [t |-> "inf", a |-> sign, b |-> 0]
MathSin(value, maxValue) == [t |-> "sin", a |-> value, b |-> maxValue]
MathCos(value, maxValue) == [t |-> "cos", a |-> value, b |-> maxValue]
IsNaN(x) == x.t = "nan"

\* the calendar
IsLeapYear(y) == (y % 4 = 0 /\ y % 100 # 0) \/ y % 400 = 0
DaysInMonth(y, m) ==
    IF m = 2 THEN (IF IsLeapYear(y) THEN 29 ELSE 28)
    ELSE IF m \in {4, 6, 9, 11} THEN 30 ELSE 31
RECURSIVE DaysBeforeMonth(_, _)
DaysBeforeMonth(y, m) ==
    IF m = 1 THEN 0 ELSE DaysBeforeMonth(y, m - 1) + DaysInMonth(y, m - 1)
\* hours from January 1st 00:00 UTC of year y to YYYY-MM-DD 00:00 UTC, the
\* instant new Date("YYYY-MM-DD") denotes
HoursIntoYearUTC(y, m, d) == (DaysBeforeMonth(y, m) + d - 1) * 24

\* train.js: encodeCyclical
encodeCyclicalTrain(value, maxValue) ==
    << MathSin(value, maxValue), MathCos(value, maxValue) >>

\* predict.js: encodeCyclical
encodeCyclicalPredict(value, maxValue) ==
    << MathSin(value, maxValue), MathCos(value, maxValue) >>

\* (fullYear - globalMinYear) / (globalMaxYear - globalMinYear) in IEEE
\* arithmetic.  The only bounds that are not finite are those findMinMaxYear
\* returns for no valid date, (+Infinity, -Infinity): -Infinity / -Infinity.
YearQuotient(fullYear, minYear, maxYear) ==
    IF minYear.t = "num" /\ maxYear.t = "num"
    THEN LET n == fullYear - minYear.a
             d == maxYear.a - minYear.a
         IN IF d # 0 THEN [t |-> "num", a |-> n, b |-> d]
            ELSE IF n = 0 THEN NaN
            ELSE Infinity(IF n > 0 THEN 1 ELSE -1)
    ELSE NaN

\* train.js: parseDateToFeatures, reading the module's globalMinYear and
\* globalMaxYear; new Date(fullYear, 0, 1) is midnight of January 1st in the
\* host's time zone, which is tz hours ahead of UTC
parseDateToFeaturesTrain(dateString, minYear, maxYear, tz) ==
    IF dateString.k # "date" THEN << NaN, NaN, NaN, NaN, NaN >>
    ELSE LET fullYear == dateString.y
             yearScaled == YearQuotient(fullYear, minYear, maxYear)
             month == dateString.m
             monthEnc == encodeCyclicalTrain(month, 12)
             dateMinusStart == HoursIntoYearUTC(fullYear, dateString.m, dateString.d) + tz
             dayIndex == (dateMinusStart \div 24) + 1
             dayOfYear == MathMax(1, MathMin(dayIndex, 366))
             dayEnc == encodeCyclicalTrain(dayOfYear, 366)
         IN << yearScaled, monthEnc[1], monthEnc[2], dayEnc[1], dayEnc[2] >>

\* predict.js: parseDateToFeatures, reading its constants globalMinYear and
\* globalMaxYear
parseDateToFeaturesPredict(dateString, minYear, maxYear, tz) ==
    IF dateString.k # "date" THEN << NaN, NaN, NaN, NaN, NaN >>
    ELSE LET fullYear == dateString.y
             yearScaled == YearQuotient(fullYear, minYear, maxYear)
             month == dateString.m
             monthEnc == encodeCyclicalPredict(month, 12)
             dateMinusStart == HoursIntoYearUTC(fullYear, dateString.m, dateString.d) + tz
             dayIndex == (dateMinusStart \div 24) + 1
             dayOfYear == MathMax(1, MathMin(dayIndex, 366))
             dayEnc == encodeCyclicalPredict(dayOfYear, 366)
         IN << yearScaled, monthEnc[1], monthEnc[2], dayEnc[1], dayEnc[2] >>

\* predict.js: const globalMinYear = 1990, globalMaxYear = 2030
PredictGlobalMinYear == 1990
PredictGlobalMaxYear == 2030
\* train.js: the placeholders globalMinYear and globalMaxYear are declared with
TrainPlaceholderMinYear == 1990
TrainPlaceholderMaxYear == 2030

\* parseFloat of a field
parseFloatField(field) == IF field.k = "num" THEN Num(field.v) ELSE NaN

\* loadDataset with the check of Longitude_Geocoded left out
RECURSIVE loadDatasetNoLongitude(_)
loadDatasetNoLongitude(csv) ==
    IF csv = <<>> THEN <<>>
    ELSE LET row == csv[Len(csv)]
             before == loadDatasetNoLongitude(SubSeq(csv, 1, Len(csv) - 1))
         IN IF IsFalsy(row.Date) \/ IsFalsy(row.Latitude_Geocoded)
            THEN before
            ELSE Append(before, row)

\* train.js: the callback of .on("data") in loadDataset, folded over the rows
RECURSIVE loadDataset(_)
loadDataset(csv) ==
    IF csv = <<>> THEN <<>>
    ELSE LET row == csv[Len(csv)]
             before == loadDataset(SubSeq(csv, 1, Len(csv) - 1))
         IN IF \/ IsFalsy(row.Date)
               \/ IsFalsy(row.Latitude_Geocoded)
               \/ IsFalsy(row.Longitude_Geocoded)
            THEN before
            ELSE Append(before, row)

\* train.js: findMinMaxYear; the year of an invalid date is NaN and every
\* comparison with NaN is false
RECURSIVE findMinMaxYearFrom(_, _, _, _)
findMinMaxYearFrom(rs, i, minY, maxY) ==
    IF i > Len(rs) THEN << minY, maxY >>
    ELSE LET dateVal == rs[i].Date
         IN IF dateVal.k # "date" THEN findMinMaxYearFrom(rs, i + 1, minY, maxY)
            ELSE LET year == dateVal.y
                     minY2 == IF minY.t = "inf" \/ year < minY.a THEN Num(year) ELSE minY
                     maxY2 == IF maxY.t = "inf" \/ year > maxY.a THEN Num(year) ELSE maxY
                 IN findMinMaxYearFrom(rs, i + 1, minY2, maxY2)

findMinMaxYear(rs) == findMinMaxYearFrom(rs, 1, Infinity(1), Infinity(-1))

\* safeParse without the replacement of NaN by 0.0
safeParseKeepsNaN(str) == parseFloatField(str)

\* train.js: safeParse inside rowToFeatureTarget
safeParse(str) ==
    LET val == parseFloatField(str)
    IN IF IsNaN(val) THEN Num(0) ELSE val

\* train.js: rowToFeatureTarget; row.targets holds the 16 pollutant columns in
\* the order of targetValues
rowToFeatureTarget(row, minYear, maxYear, tz) ==
    LET f == parseDateToFeaturesTrain(row.Date, minYear, maxYear, tz)
        longitude == parseFloatField(row.Longitude_Geocoded)
        latitude == parseFloatField(row.Latitude_Geocoded)
    IN [ inputFeatures |-> << f[1], f[2], f[3], f[4], f[5], longitude, latitude >>,
         targetValues |-> [i \in 1..Len(row.targets) |-> safeParse(row.targets[i])] ]

\* the row of runPredict with latitude before longitude
runPredictInputLatLon(dateStr, longitude, latitude, minYear, maxYear, tz) ==
    LET f == parseDateToFeaturesPredict(dateStr, minYear, maxYear, tz)
    IN << f[1], f[2], f[3], f[4], f[5], latitude, longitude >>

\* predict.js: the row runPredict gives to tf.tensor2d
runPredictInput(dateStr, longitude, latitude, minYear, maxYear, tz) ==
    LET f == parseDateToFeaturesPredict(dateStr, minYear, maxYear, tz)
    IN << f[1], f[2], f[3], f[4], f[5], longitude, latitude >>

-----------------------------------------------------------------------------
(* Inputs: the firedata.csv files and the predictFire queries explored *)

HalfDeg == DegTicks \div 2
QuarterDeg == DegTicks \div 4

\* the two fires of the end-to-end scenario
RowsScenario ==
    << Row(5, Deg(30), Deg(-80), 2020, 100), Row(3, Deg(31), Deg(-81), 2021, 150) >>
\* a single fire: every range of the bounding box is zero
RowsOne == << Row(1, Deg(30), Deg(-80), 2020, 100) >>
\* two rows one tick apart (same 4-decimal key), and a row without LATITUDE
RowsNear ==
    << Row(5, Deg(30), Deg(-80), 2020, 100),
       [Row(2, 0, Deg(-80), 2020, 100) EXCEPT !.LATITUDE = <<>>],
       Row(7, Deg(30) + 1, Deg(-80), 2020, 100) >>
\* no usable row
RowsNone == << [Row(2, Deg(30), Deg(-80), 2020, 100) EXCEPT !.DISCOVERY_DOY = <<>>] >>
\* four fires on one meridian in one year: quotas 1 local, 1 global, 2 never-fire
RowsMeridian ==
    << Row(5, Deg(30), Deg(-80), 2020, 1), Row(3, Deg(30) + HalfDeg, Deg(-80), 2020, 184),
       Row(9, Deg(31) + HalfDeg, Deg(-80), 2020, 360), Row(4, Deg(31), Deg(-80), 2020, 200) >>
\* four fires on one parallel over two years
RowsParallel ==
    << Row(5, Deg(30), Deg(-80), 2020, 10), Row(3, Deg(30), Deg(-81), 2021, 184),
       Row(9, Deg(30), Deg(-80) - HalfDeg, 2020, 366), Row(4, Deg(30), Deg(-80), 2020, 10) >>
\* two fires in one cell of one degree: the grid is that cell
RowsOneCell ==
    << Row(5, Deg(30), Deg(-80) - HalfDeg, 2020, 100),
       Row(3, Deg(30) + HalfDeg, Deg(-80), 2020, 150) >>
\* a bounding box of 1.25 x 1.25 degrees: the grid's last cells are partial
RowsPartial ==
    << Row(5, Deg(30), Deg(-80), 2020, 100),
       Row(3, Deg(31) + QuarterDeg, Deg(-81) - QuarterDeg, 2020, 150) >>

FireCsvInputs ==
    { <<>>, RowsNone, RowsOne, RowsNear, RowsScenario, RowsMeridian, RowsParallel,
      RowsPartial, RowsOneCell }

\* run() of predict.js asks for (29.650169..., -82.341621..., 2026, 200),
\* here to the 4th decimal
FireQueries ==
    { [lat |-> Deg(29) + (6502 * DegTicks) \div 10000,
       lon |-> -(Deg(82) + (3416 * DegTicks) \div 10000), year |-> 2026, doy |-> 200],
      [lat |-> Deg(30) + HalfDeg, lon |-> Deg(-80) - HalfDeg, year |-> 2020, doy |-> 150] }

-----------------------------------------------------------------------------
(* The wildfire training run and predictFire *)

NoDraw == [gen |-> "none"]

\* the pollution scripts have not run
PollIdle ==
    /\ ppc = "idle"
    /\ pollCsv = <<>>
    /\ hostTz = 0
    /\ rows = <<>>
    /\ globalMinYear = Num(TrainPlaceholderMinYear)
    /\ globalMaxYear = Num(TrainPlaceholderMaxYear)
    /\ allFeatures = <<>>
    /\ allTargets = <<>>
    /\ pollModelFile = "absent"
    /\ pollQuery = <<>>

\* no encoding comparison is under way
EncIdle == enc = <<>>

\* geocodeBatch.js has not run
GeoIdle ==
    /\ gpc = "idle"
    /\ inputCsv = <<>>
    /\ allRows = <<>>
    /\ chunkIndex = 0
    /\ batchResultCsv = <<>>
    /\ resultsMap = <<>>
    /\ finalResults = <<>>
    /\ outputCsv = "absent"

\* the wildfire scripts have not run
FireIdle ==
    /\ pc = "idle"
    /\ csvRows = <<>>
    /\ positiveData = <<>>
    /\ bounding = <<>>
    /\ fireSet = {}
    /\ totalPos = 0
    /\ counts = <<>>
    /\ negatives = <<>>
    /\ attempts = 0
    /\ zeroFireCells = <<>>
    /\ draw = NoDraw
    /\ localNegatives = <<>>
    /\ globalNegatives = <<>>
    /\ neverFireNegatives = <<>>
    /\ fullData = <<>>
    /\ XAll = <<>>
    /\ modelFile = "absent"
    /\ fireQuery = <<>>

Init ==
    /\ pc = "load"
    /\ csvRows \in FireCsvInputs
    /\ positiveData = <<>>
    /\ bounding = <<>>
    /\ fireSet = {}
    /\ totalPos = 0
    /\ counts = <<>>
    /\ negatives = <<>>
    /\ attempts = 0
    /\ zeroFireCells = <<>>
    /\ draw = NoDraw
    /\ localNegatives = <<>>
    /\ globalNegatives = <<>>
    /\ neverFireNegatives = <<>>
    /\ fullData = <<>>
    /\ XAll = <<>>
    /\ modelFile = "absent"
    /\ fireQuery = <<>>
    /\ PollIdle
    /\ EncIdle
    /\ GeoIdle

\* runTraining up to the call of createLocalNegativeSamples
LoadAndPrepare ==
    /\ pc = "load"
    /\ LET loaded == loadPositiveData(csvRows)
       IN /\ positiveData' = loaded
          /\ IF Len(loaded) = 0
             THEN /\ pc' = "aborted"
                  /\ UNCHANGED << bounding, fireSet, totalPos, counts >>
             ELSE /\ pc' = "local"
                  /\ bounding' = ComputeBounding(loaded)
                  /\ fireSet' = buildFireSet(loaded)
                  /\ totalPos' = Len(loaded)
                  /\ counts' = QuotaSplit(Len(loaded))
    /\ UNCHANGED << csvRows, negatives, attempts, zeroFireCells, draw, localNegatives,
                    globalNegatives, neverFireNegatives, fullData, XAll, modelFile,
                    fireQuery, pvars, enc, gvars >>

\* the tail of a generator's loop body: the collision check and the push
CommitCandidate(c) ==
    /\ attempts' = attempts + 1
    /\ draw' = c @@ [hadKey |-> FireSetHas(fireSet, c.key)]
    /\ IF ~FireSetHas(fireSet, c.key)
       THEN /\ negatives' = Append(negatives, c.row)
            /\ fireSet' = FireSetAdd(fireSet, c.key)
       ELSE UNCHANGED << negatives, fireSet >>

\* one iteration of the while loop of createLocalNegativeSamples
LocalAttempt ==
    /\ pc = "local"
    /\ LocalLoopCond(negatives, attempts, counts.localNegCount)
    /\ \E kIdx \in Rand, kLat \in Rand, kLon \in Rand, kDoy \in Rand :
          CommitCandidate(LocalCandidate(positiveData, bounding, kIdx, kLat, kLon, kDoy))
    /\ UNCHANGED << pc, csvRows, positiveData, bounding, totalPos, counts, zeroFireCells,
                    localNegatives, globalNegatives, neverFireNegatives, fullData, XAll,
                    modelFile, fireQuery, pvars, enc, gvars >>

\* createLocalNegativeSamples returns; runTraining calls createGlobalNegativeSamples
LocalReturn ==
    /\ pc = "local"
    /\ ~LocalLoopCond(negatives, attempts, counts.localNegCount)
    /\ localNegatives' = negatives
    /\ negatives' = <<>>
    /\ attempts' = 0
    /\ draw' = NoDraw
    /\ pc' = "global"
    /\ UNCHANGED << csvRows, positiveData, bounding, fireSet, totalPos, counts, zeroFireCells,
                    globalNegatives, neverFireNegatives, fullData, XAll, modelFile,
                    fireQuery, pvars, enc, gvars >>

\* one iteration of the while loop of createGlobalNegativeSamples
GlobalAttempt ==
    /\ pc = "global"
    /\ GlobalLoopCond(negatives, attempts, counts.globalNegCount)
    /\ \E kLat \in Rand, kLon \in Rand, kYear \in Rand, kDoy \in Rand :
          CommitCandidate(GlobalCandidate(bounding, kLat, kLon, kYear, kDoy))
    /\ UNCHANGED << pc, csvRows, positiveData, bounding, totalPos, counts, zeroFireCells,
                    localNegatives, globalNegatives, neverFireNegatives, fullData, XAll,
                    modelFile, fireQuery, pvars, enc, gvars >>

\* createGlobalNegativeSamples returns; runTraining calls createNeverFireNegatives
GlobalReturn ==
    /\ pc = "global"
    /\ ~GlobalLoopCond(negatives, attempts, counts.globalNegCount)
    /\ globalNegatives' = negatives
    /\ negatives' = <<>>
    /\ attempts' = 0
    /\ draw' = NoDraw
    /\ pc' = "neverGrid"
    /\ UNCHANGED << csvRows, positiveData, bounding, fireSet, totalPos, counts, zeroFireCells,
                    localNegatives, neverFireNegatives, fullData, XAll, modelFile,
                    fireQuery, pvars, enc, gvars >>

\* createNeverFireNegatives up to its while loop: the grid, the zero-fire
\* cells, and the early return when there is none
NeverGrid ==
    /\ pc = "neverGrid"
    /\ LET cells == ZeroFireCells(positiveData, bounding)
       IN /\ zeroFireCells' = cells
          /\ IF NoZeroFireCells(cells)
             THEN /\ neverFireNegatives' = negatives
                  /\ pc' = "assemble"
             ELSE /\ pc' = "never"
                  /\ UNCHANGED neverFireNegatives
    /\ UNCHANGED << csvRows, positiveData, bounding, fireSet, totalPos, counts, negatives, attempts,
                    draw, localNegatives, globalNegatives, fullData, XAll, modelFile,
                    fireQuery, pvars, enc, gvars >>

\* one iteration of the while loop of createNeverFireNegatives
NeverAttempt ==
    /\ pc = "never"
    /\ NeverLoopCond(negatives, attempts, counts.neverFireNegCount)
    /\ \E kIdx \in Rand, kLat \in Rand, kLon \in Rand, kYear \in Rand, kDoy \in Rand :
          CommitCandidate(NeverCandidate(zeroFireCells, bounding, kIdx, kLat, kLon,
                                         kYear, kDoy))
    /\ UNCHANGED << pc, csvRows, positiveData, bounding, totalPos, counts, zeroFireCells,
                    localNegatives, globalNegatives, neverFireNegatives, fullData, XAll,
                    modelFile, fireQuery, pvars, enc, gvars >>

\* createNeverFireNegatives returns after its loop
NeverReturn ==
    /\ pc = "never"
    /\ ~NeverLoopCond(negatives, attempts, counts.neverFireNegCount)
    /\ neverFireNegatives' = negatives
    /\ negatives' = <<>>
    /\ attempts' = 0
    /\ draw' = NoDraw
    /\ pc' = "assemble"
    /\ UNCHANGED << csvRows, positiveData, bounding, fireSet, totalPos, counts, zeroFireCells,
                    localNegatives, globalNegatives, fullData, XAll, modelFile,
                    fireQuery, pvars, enc, gvars >>

\* runTraining from "Combine them" to the tensors handed to model.fit
Assemble ==
    /\ pc = "assemble"
    /\ LET negativeData == localNegatives \o globalNegatives \o neverFireNegatives
           full == positiveData \o negativeData
       IN /\ fullData' = full
          /\ XAll' = [i \in 1..Len(full) |-> EncodeTrainRow(full[i], bounding)]
    /\ positiveData' = <<>>
    /\ pc' = "fit"
    /\ UNCHANGED << csvRows, bounding, fireSet, totalPos, counts, negatives, attempts,
                    zeroFireCells, draw, localNegatives, globalNegatives,
                    neverFireNegatives, modelFile, fireQuery, pvars, enc, gvars >>

\* await model.fit(...): it resolves or it rejects
FitModel ==
    /\ pc = "fit"
    /\ \E ok \in BOOLEAN : pc' = IF ok THEN "save" ELSE "threw"
    /\ UNCHANGED << csvRows, positiveData, bounding, fireSet, totalPos, counts, negatives, attempts,
                    zeroFireCells, draw, localNegatives, globalNegatives,
                    neverFireNegatives, fullData, XAll, modelFile, fireQuery, pvars, enc, gvars >>

\* await model.save("file://./wildfire-model"): topology and weights only
SaveModel ==
    /\ pc = "save"
    /\ \E ok \in BOOLEAN :
          IF ok THEN pc' = "done" /\ modelFile' = "model.json"
                ELSE pc' = "threw" /\ UNCHANGED modelFile
    /\ UNCHANGED << csvRows, positiveData, bounding, fireSet, totalPos, counts, negatives, attempts,
                    zeroFireCells, draw, localNegatives, globalNegatives,
                    neverFireNegatives, fullData, XAll, fireQuery, pvars, enc, gvars >>

\* predictFire(lat, lon, year, doy) of predict.js, run on the saved model
PredictFire ==
    /\ pc = "done"
    /\ fireQuery = <<>>
    /\ \E q \in FireQueries :
          fireQuery' = [ query |-> q,
                         bounds |-> PredictFireBounds,
                         input |-> EncodePredictRow(q.lat, q.lon, q.year, q.doy,
                                                    PredictFireBounds),
                         model |-> modelFile ]
    /\ UNCHANGED << pc, csvRows, positiveData, bounding, fireSet, totalPos, counts, negatives,
                    attempts, zeroFireCells, draw, localNegatives, globalNegatives,
                    neverFireNegatives, fullData, XAll, modelFile, pvars, enc, gvars >>

Next ==
    \/ LoadAndPrepare
    \/ LocalAttempt
    \/ LocalReturn
    \/ GlobalAttempt
    \/ GlobalReturn
    \/ NeverGrid
    \/ NeverAttempt
    \/ NeverReturn
    \/ Assemble
    \/ FitModel
    \/ SaveModel
    \/ PredictFire

Spec == Init /\ [][Next]_vars

-----------------------------------------------------------------------------
(* Properties of the wildfire training run *)

Range(seq) == { seq[i] : i \in DOMAIN seq }
Assembled == pc \in {"fit", "save", "done", "threw"}
NegativeCount == Len(localNegatives) + Len(globalNegatives) + Len(neverFireNegatives)
PositiveCount == Len(fullData) - NegativeCount

\* C1: no two records of the final dataset (the positives followed by the
\* local, global and never-fire negatives) have the same Event Key, whether
\* the two are positives, negatives, or one of each.
C1_NoTwoRecordsShareKey ==
    Assembled =>
        \A i, j \in 1..Len(fullData) :
            i # j => RowKey(fullData[i]) # RowKey(fullData[j])

\* C2: an accepted candidate's key is absent from the shared key set before
\* the acceptance and present after it; a candidate whose key is present is
\* not emitted; so every emitted negative has a key of its own, different from
\* every positive's and from every earlier negative's of any generator.
GenPc == {"local", "global", "never"}
EmittedSoFar == localNegatives \o globalNegatives \o neverFireNegatives \o negatives

C2_EmittedKeysDistinct ==
    /\ \A i \in 1..Len(EmittedSoFar) : RowKey(EmittedSoFar[i]) \in fireSet
    /\ \A i, j \in 1..Len(EmittedSoFar) :
          i # j => RowKey(EmittedSoFar[i]) # RowKey(EmittedSoFar[j])
    /\ pc \in GenPc \cup {"neverGrid"} =>
          \A i \in 1..Len(EmittedSoFar), p \in Range(positiveData) :
              RowKey(EmittedSoFar[i]) # RowKey(p)

C2_AcceptStep ==
    (pc \in GenPc /\ attempts' = attempts + 1) =>
        LET key == draw'.key
        IN /\ key = RowKey(draw'.row)
           /\ key \in fireSet'
           /\ IF key \in fireSet
              THEN negatives' = negatives /\ fireSet' = fireSet
              ELSE negatives' = Append(negatives, draw'.row)

C2_KeyAbsentThenPresent == []C2_EmittedKeysDistinct /\ [][C2_AcceptStep]_vars

\* a candidate of the global generator rejected for the key of a negative that
\* the local generator emitted
C2_Witness ==
    /\ pc = "global"
    /\ draw.gen = "global"
    /\ draw.hadKey
    /\ Len(localNegatives) = 1
    /\ draw.key = RowKey(localNegatives[1])

\* C7: a generator returns at most target_count records after at most
\* multiplier * target_count draws (5 local, 10 global, 10 never-fire); every
\* iteration uses up one attempt and is taken only while fewer than
\* target_count records are accepted and the budget is not used up; and the
\* generator terminates: the attempts counter grows with every iteration, is
\* bounded by the budget, and a running generator always has a next step (an
\* iteration or its return).
TargetCount ==
    CASE pc = "local" -> counts.localNegCount
      [] pc = "global" -> counts.globalNegCount
      [] pc = "never" -> counts.neverFireNegCount
      [] OTHER -> 0
AttemptBudget ==
    CASE pc = "local" -> 5 * counts.localNegCount
      [] pc = "global" -> 10 * counts.globalNegCount
      [] pc = "never" -> 10 * counts.neverFireNegCount
      [] OTHER -> 0

C7_WithinBudget ==
    /\ pc \in GenPc => attempts <= AttemptBudget /\ Len(negatives) <= TargetCount
    /\ counts # <<>> =>
          /\ Len(localNegatives) <= counts.localNegCount
          /\ Len(globalNegatives) <= counts.globalNegCount
          /\ Len(neverFireNegatives) <= counts.neverFireNegCount

C7_IterationStep ==
    (pc \in GenPc /\ pc' = pc) =>
        /\ attempts' = attempts + 1
        /\ Len(negatives) < TargetCount
        /\ attempts < AttemptBudget
        /\ Len(negatives') <= Len(negatives) + 1

C7_NeverStuck == pc \in GenPc => ENABLED Next

C7_GeneratorsTerminate ==
    /\ []C7_WithinBudget
    /\ []C7_NeverStuck
    /\ [][C7_IterationStep]_vars

\* the local generator gives up: its budget of 5 draws is spent and nothing
\* was accepted
C7_Witness ==
    /\ pc = "local"
    /\ counts.localNegCount = 1
    /\ attempts = 5
    /\ negatives = <<>>

\* C8: a negative of the global or of the never-fire generator lies inside the
\* Domain Bounds, has a year in [yearMin, yearMax] and a day-of-year in [1, 366].
InDomain(n) ==
    /\ bounding.latMin <= n.LATITUDE /\ n.LATITUDE <= bounding.latMax
    /\ bounding.lonMin <= n.LONGITUDE /\ n.LONGITUDE <= bounding.lonMax
    /\ n.FIRE_YEAR \in bounding.yearMin .. bounding.yearMax
    /\ n.DISCOVERY_DOY \in 1..366

C8_GlobalAndNeverInDomain ==
    /\ \A n \in Range(globalNegatives) \cup Range(neverFireNegatives) : InDomain(n)
    /\ pc \in {"global", "never"} => \A n \in Range(negatives) : InDomain(n)

\* C9: a candidate of the local generator comes from one anchor positive: its
\* latitude and longitude are the anchor's moved by at most 0.5 degrees and
\* then clamped into the Domain Bounds, its year is the anchor's, its
\* day-of-year is the anchor's moved by at most 15 days and then clamped into
\* [1, 366]; an accepted candidate is the record emitted.
ClampedFrom(v, raw, lo, hi) ==
    /\ lo <= v /\ v <= hi
    /\ (lo <= raw /\ raw <= hi) => v = raw
    /\ raw < lo => v = lo
    /\ raw > hi => v = hi

C9_LocalNearAnchor ==
    (pc = "local" /\ draw.gen = "local") =>
        LET p == draw.ref
            n == draw.row
        IN /\ p \in Range(positiveData)
           /\ Abs(draw.latOffset) * 2 <= DegTicks
           /\ Abs(draw.lonOffset) * 2 <= DegTicks
           /\ Abs(draw.doyOffset) <= 15
           /\ ClampedFrom(n.LATITUDE, p.LATITUDE + draw.latOffset,
                          bounding.latMin, bounding.latMax)
           /\ ClampedFrom(n.LONGITUDE, p.LONGITUDE + draw.lonOffset,
                          bounding.lonMin, bounding.lonMax)
           /\ n.FIRE_YEAR = p.FIRE_YEAR
           /\ ClampedFrom(n.DISCOVERY_DOY, p.DISCOVERY_DOY + draw.doyOffset, 1, 366)
           /\ ~draw.hadKey => negatives # <<>> /\ negatives[Len(negatives)] = n

\* an accepted local negative whose latitude and day-of-year were both clamped
C9_Witness ==
    /\ pc = "local"
    /\ draw.gen = "local"
    /\ ~draw.hadKey
    /\ draw.ref.LATITUDE + draw.latOffset < bounding.latMin
    /\ draw.ref.DISCOVERY_DOY + draw.doyOffset < 1
    /\ draw.row.DISCOVERY_DOY = 1

\* C10: a candidate of the never-fire generator is drawn from a grid cell
\* (cLat, cLon) in which no positive lies: no positive p has
\* floor((p.lat - latMin) / 1.0) = cLat and floor((p.lon - lonMin) / 1.0) = cLon;
\* the point is drawn between the cell's edges, and an accepted candidate is
\* the record emitted.
C10_DrawnFromEmptyCell ==
    (pc = "never" /\ draw.gen = "never") =>
        LET c == draw.cell
            latCellMin == bounding.latMin + c.cLat * DegTicks
            lonCellMin == bounding.lonMin + c.cLon * DegTicks
        IN /\ c \in Range(zeroFireCells)
           /\ \A p \in Range(positiveData) :
                 ~ /\ (p.LATITUDE - bounding.latMin) \div DegTicks = c.cLat
                   /\ (p.LONGITUDE - bounding.lonMin) \div DegTicks = c.cLon
           /\ latCellMin <= draw.lat /\ draw.lat <= latCellMin + DegTicks
           /\ lonCellMin <= draw.lon /\ draw.lon <= lonCellMin + DegTicks
           /\ ~draw.hadKey => negatives # <<>> /\ negatives[Len(negatives)] = draw.row

\* two never-fire negatives accepted, the last one from the partial cell (1, 1)
C10_Witness ==
    /\ pc = "never"
    /\ draw.gen = "never"
    /\ ~draw.hadKey
    /\ Len(negatives) = 2
    /\ draw.cell = [cLat |-> 1, cLon |-> 1]
    /\ draw.lat > bounding.latMax

\* C3: the six bounds predictFire scales a query with are the bounds the
\* training run computed from its positive set (the run's bounds are persisted
\* and read back at inference).
C3_PredictUsesTrainingBounds ==
    fireQuery # <<>> => fireQuery.bounds = bounding

\* the number of whole or partial cells of one degree that span a range
C11_CellsSpanning(range) ==
    CHOOSE n \in 0 .. (range \div DegTicks + 1) :
        n * DegTicks >= range /\ (n - 1) * DegTicks < range

\* the cells of the grid over the bounding box in which no positive lies
C11_EmptyCells ==
    { c \in (0 .. C11_CellsSpanning(bounding.latMax - bounding.latMin) - 1)
            \X (0 .. C11_CellsSpanning(bounding.lonMax - bounding.lonMin) - 1) :
        \A p \in Range(positiveData) :
            ~ /\ (p.LATITUDE - bounding.latMin) \div DegTicks = c[1]
              /\ (p.LONGITUDE - bounding.lonMin) \div DegTicks = c[2] }

\* C11: the zero-fire cell list of createNeverFireNegatives holds exactly the
\* cells (i, j), 0 <= i < ceil((latMax - latMin)/1.0) and
\* 0 <= j < ceil((lonMax - lonMin)/1.0), in which no positive lies, each of
\* them once, and no cell in which a positive lies.
C11_ZeroFireCellsExact ==
    pc \in {"never", "assemble"} =>
        /\ { << zeroFireCells[i].cLat, zeroFireCells[i].cLon >> :
                 i \in 1..Len(zeroFireCells) } = C11_EmptyCells
        /\ \A i, j \in 1..Len(zeroFireCells) :
              i # j => zeroFireCells[i] # zeroFireCells[j]

\* a grid of 2 x 2 cells whose last row and column are partial, two of its
\* cells empty
C11_Witness ==
    /\ pc = "never"
    /\ Len(zeroFireCells) = 2
    /\ (bounding.latMax - bounding.latMin) % DegTicks # 0
    /\ fireSet # {}

\* createNeverFireNegatives finds no empty cell and returns: it hands back an
\* empty list, leaves the key set and the other generators' lists alone, and
\* runTraining goes on to the assembly
C12_EarlyReturnStep ==
    (pc = "neverGrid" /\ C11_EmptyCells = {}) =>
        /\ pc' = "assemble"
        /\ neverFireNegatives' = <<>>
        /\ fireSet' = fireSet
        /\ localNegatives' = localNegatives
        /\ globalNegatives' = globalNegatives

\* the assembly after such a return: the positives, then the local and the
\* global negatives
C12_AssemblyStep ==
    (pc = "assemble" /\ zeroFireCells = <<>>) =>
        /\ pc' = "fit"
        /\ fullData' = positiveData \o localNegatives \o globalNegatives

\* C12: when the grid has no cell without a positive (a bounding box of zero
\* extent on an axis included), createNeverFireNegatives returns an empty list
\* without an error and without adding a key to the shared key set, and the
\* run continues to the assembly with the negatives of the other two
\* generators.
C12_NoZeroCellIsNotFatal ==
    /\ []((pc = "neverGrid") => ENABLED NeverGrid)
    /\ [][C12_EarlyReturnStep]_vars
    /\ [][C12_AssemblyStep]_vars

\* a run with one local and one global negative whose grid has no cell at all
\* (zero extent in longitude), assembled
C12_Witness ==
    /\ pc = "fit"
    /\ zeroFireCells = <<>>
    /\ counts.neverFireNegCount = 2
    /\ neverFireNegatives = <<>>
    /\ Len(localNegatives) = 1
    /\ Len(globalNegatives) = 1
    /\ Len(fullData) = 6

\* a scaled feature is exactly 0, or a quotient in [0, 1]
C13_InUnitInterval(x) == x.den > 0 /\ 0 <= x.num /\ x.num <= x.den

\* what minMaxScale returned for a raw value: exactly 0 when min = max, and a
\* value in [0, 1] when min < max and the raw value is within [min, max]
C13_ScaleOf(x, v, min, max) ==
    /\ min = max => x = Frac(0, 1)
    /\ (min < max /\ min <= v /\ v <= max) => C13_InUnitInterval(x)

\* the part of C13 that is about the function alone, on the rows of the
\* training dataset
C13_MinMaxScaleOnRows ==
    Assembled =>
        \A i \in 1..Len(XAll) :
            /\ C13_ScaleOf(XAll[i][1], fullData[i].LATITUDE, bounding.latMin, bounding.latMax)
            /\ C13_ScaleOf(XAll[i][2], fullData[i].LONGITUDE, bounding.lonMin, bounding.lonMax)
            /\ C13_ScaleOf(XAll[i][3], fullData[i].FIRE_YEAR, bounding.yearMin, bounding.yearMax)

\* C13: minMaxScale returns exactly 0 when min = max and a value in [0, 1]
\* when min < max and min <= v <= max; so every record of the training
\* dataset, positive or negative, has its scaled latitude, longitude and year
\* in [0, 1].
C13_ScaledFeaturesInUnitInterval ==
    /\ C13_MinMaxScaleOnRows
    /\ Assembled =>
          \A i \in 1..Len(XAll) :
              /\ Len(XAll[i]) = 4
              /\ \A c \in 1..3 : C13_InUnitInterval(XAll[i][c])

\* the run on the two positives (30, -80, 2020, 100) and (31, -81, 2021, 150)
C14_Scenario == csvRows = RowsScenario

\* the split is 0 local, 0 global, 2 never-fire; every negative comes from
\* the never-fire generator and has the key of neither positive
C14_ScenarioNegatives ==
    /\ counts = [totalNeg |-> 2, localNegCount |-> 0, globalNegCount |-> 0,
                 neverFireNegCount |-> 2]
    /\ localNegatives = <<>>
    /\ globalNegatives = <<>>
    /\ fullData = loadPositiveData(RowsScenario) \o neverFireNegatives
    /\ \A i \in 1..Len(neverFireNegatives), j \in 1..2 :
          RowKey(neverFireNegatives[i]) # RowKey(fullData[j])

\* C14: in the end-to-end scenario with the two positives (30, -80, 2020,
\* 100) and (31, -81, 2021, 150) the split is local 0, global 0, never-fire 2
\* and the run produces exactly 2 negatives, both from the never-fire
\* generator, neither with the key of either positive.
C14_ScenarioExactlyTwo ==
    (C14_Scenario /\ Assembled) =>
        /\ C14_ScenarioNegatives
        /\ Len(neverFireNegatives) = 2

\* the never-fire generator returns with 2 records, or with fewer after its
\* 20 draws
C14_ReturnStep ==
    (C14_Scenario /\ pc = "never" /\ pc' = "assemble") =>
        /\ Len(negatives) <= 2
        /\ Len(negatives) < 2 => attempts = 20
        /\ neverFireNegatives' = negatives

\* C14 amended: in the scenario the split is local 0, global 0, never-fire 2
\* and the run produces at most 2 negatives, exactly 2 unless the never-fire
\* generator has spent its 20 draws; all of them come from the never-fire
\* generator and none has the key of either positive.
C14_ScenarioAtMostTwo ==
    /\ []((C14_Scenario /\ Assembled) =>
             C14_ScenarioNegatives /\ Len(neverFireNegatives) <= 2)
    /\ [][C14_ReturnStep]_vars

\* the scenario assembled with its two never-fire negatives
C14_Witness ==
    /\ C14_Scenario
    /\ pc = "fit"
    /\ Len(neverFireNegatives) = 2
    /\ Len(fullData) = 4

-----------------------------------------------------------------------------
(* The quota split on its own, for every number of positives up to MaxTotalPos *)

InitQuota ==
    /\ pc = "split"
    /\ totalPos \in 1..MaxTotalPos
    /\ csvRows = <<>>
    /\ positiveData = <<>>
    /\ bounding = <<>>
    /\ fireSet = {}
    /\ counts = <<>>
    /\ negatives = <<>>
    /\ attempts = 0
    /\ zeroFireCells = <<>>
    /\ draw = NoDraw
    /\ localNegatives = <<>>
    /\ globalNegatives = <<>>
    /\ neverFireNegatives = <<>>
    /\ fullData = <<>>
    /\ XAll = <<>>
    /\ modelFile = "absent"
    /\ fireQuery = <<>>
    /\ PollIdle
    /\ EncIdle
    /\ GeoIdle

\* runTraining, "Decide how many negative samples from each method"
SplitQuota ==
    /\ pc = "split"
    /\ counts' = QuotaSplit(totalPos)
    /\ pc' = "splitDone"
    /\ UNCHANGED << csvRows, positiveData, bounding, fireSet, totalPos, negatives,
                    attempts, zeroFireCells, draw, localNegatives, globalNegatives,
                    neverFireNegatives, fullData, XAll, modelFile, fireQuery, pvars, enc, gvars >>

NextQuota == SplitQuota

SpecQuota == InitQuota /\ [][NextQuota]_vars

\* C6: totalNeg = N, localNegCount = floor(0.4 N), globalNegCount =
\* floor(0.3 N), neverFireNegCount = N - local - global; the three counts add
\* up to totalNeg and none is negative.
C6_QuotaSplit ==
    pc = "splitDone" =>
        /\ counts.totalNeg = totalPos
        /\ 10 * counts.localNegCount <= 4 * totalPos
        /\ 4 * totalPos < 10 * (counts.localNegCount + 1)
        /\ 10 * counts.globalNegCount <= 3 * totalPos
        /\ 3 * totalPos < 10 * (counts.globalNegCount + 1)
        /\ counts.neverFireNegCount =
              totalPos - counts.localNegCount - counts.globalNegCount
        /\ counts.localNegCount + counts.globalNegCount + counts.neverFireNegCount
              = counts.totalNeg
        /\ counts.localNegCount >= 0
        /\ counts.globalNegCount >= 0
        /\ counts.neverFireNegCount >= 0

\* 7 positives: 2 local, 2 global, and the remainder 3 to never-fire
C6_Witness ==
    /\ pc = "splitDone"
    /\ totalPos = 7
    /\ counts.localNegCount = 2
    /\ counts.globalNegCount = 2
    /\ counts.neverFireNegCount = 3

-----------------------------------------------------------------------------
(* The pollution training run and runPredict *)

\* the 16 pollutant columns of one row: all numeric, or with fields that are
\* empty or hold no number
TargetsAll == [i \in 1..16 |-> NumField(i)]
TargetsSome == [i \in 1..16 |-> IF i % 4 = 0 THEN Empty
                                ELSE IF i % 4 = 3 THEN Text ELSE NumField(i)]

\* longitudes and latitudes of the pollution data, in 1/10000 degree
PollRow(date, lat, lon, targets) ==
    [ Date |-> date, Latitude_Geocoded |-> lat, Longitude_Geocoded |-> lon,
      targets |-> targets ]

PollRowA == PollRow(DateField(2000, 1, 1), NumField(334586), NumField(-1120463), TargetsAll)
PollRowB == PollRow(DateField(2023, 12, 31), NumField(461382), NumField(-1229382), TargetsSome)
PollRowC == PollRow(DateField(2016, 3, 1), NumField(407128), NumField(-740060), TargetsAll)
PollRowNoLat == PollRow(DateField(1995, 6, 15), Empty, NumField(-740060), TargetsAll)
PollRowNoDate == PollRow(Empty, NumField(407128), NumField(-740060), TargetsAll)
PollRowBadDate == PollRow(Text, NumField(407128), NumField(-740060), TargetsSome)
PollRow1990 == PollRow(DateField(1990, 7, 4), NumField(334586), NumField(-1120463), TargetsAll)
PollRow2030 == PollRow(DateField(2030, 2, 28), NumField(334586), NumField(-1120463), TargetsSome)

PollRowNoLon == PollRow(DateField(2001, 9, 9), NumField(407128), Empty, TargetsAll)

PollCsvInputs ==
    { <<>>,
      << PollRowNoLat, PollRowNoDate >>,
      << PollRowBadDate >>,
      << PollRowC >>,
      << PollRowA, PollRowB >>,
      << PollRowA, PollRowNoLat, PollRowBadDate, PollRowB, PollRowC >>,
      << PollRow2030, PollRow1990 >> }

\* offsets of the host's local time from UTC, in hours
TimeZones == { -8, -5, 0, 1, 9 }

PollQueries ==
    { [dateStr |-> DateField(2025, 1, 1), longitude |-> Num(-1229382), latitude |-> Num(461382)],
      [dateStr |-> DateField(2016, 3, 1), longitude |-> Num(-740060), latitude |-> Num(407128)],
      [dateStr |-> Text, longitude |-> Num(-1120463), latitude |-> NaN] }

InitPollution ==
    /\ FireIdle
    /\ EncIdle
    /\ GeoIdle
    /\ ppc = "load"
    /\ pollCsv \in PollCsvInputs
    /\ hostTz \in TimeZones
    /\ rows = <<>>
    /\ globalMinYear = Num(TrainPlaceholderMinYear)
    /\ globalMaxYear = Num(TrainPlaceholderMaxYear)
    /\ allFeatures = <<>>
    /\ allTargets = <<>>
    /\ pollModelFile = "absent"
    /\ pollQuery = <<>>

\* runTraining of train.js up to the tensors: loadDataset, findMinMaxYear, the
\* assignment of the two globals, the encoding loop and tf.tensor2d, which may
\* throw into the catch block
PollLoadAndEncode ==
    /\ ppc = "load"
    /\ LET loaded == loadDataset(pollCsv)
           mm == findMinMaxYear(loaded)
           ft == [i \in 1..Len(loaded) |->
                     rowToFeatureTarget(loaded[i], mm[1], mm[2], hostTz)]
       IN /\ rows' = loaded
          /\ globalMinYear' = mm[1]
          /\ globalMaxYear' = mm[2]
          /\ allFeatures' = [i \in 1..Len(loaded) |-> ft[i].inputFeatures]
          /\ allTargets' = [i \in 1..Len(loaded) |-> ft[i].targetValues]
    /\ \E ok \in BOOLEAN : ppc' = IF ok THEN "fit" ELSE "caught"
    /\ UNCHANGED << wvars, enc, pollCsv, hostTz, pollModelFile, pollQuery, gvars >>

\* runTraining of train.js: split, model construction and model.fit
PollFit ==
    /\ ppc = "fit"
    /\ \E ok \in BOOLEAN : ppc' = IF ok THEN "save" ELSE "caught"
    /\ UNCHANGED << wvars, enc, pollCsv, hostTz, rows, globalMinYear, globalMaxYear,
                    allFeatures, allTargets, pollModelFile, pollQuery, gvars >>

\* runTraining of train.js: model.save and the cleanup
PollSave ==
    /\ ppc = "save"
    /\ \E ok \in BOOLEAN :
          /\ ppc' = IF ok THEN "done" ELSE "caught"
          /\ pollModelFile' = IF ok THEN "model.json" ELSE pollModelFile
    /\ UNCHANGED << wvars, enc, pollCsv, hostTz, rows, globalMinYear, globalMaxYear,
                    allFeatures, allTargets, pollQuery, gvars >>

\* predict.js: runPredict on a saved model
RunPredict ==
    /\ pollModelFile = "model.json"
    /\ pollQuery = <<>>
    /\ \E q \in PollQueries :
          pollQuery' = [ query |-> q,
                         minYear |-> Num(PredictGlobalMinYear),
                         maxYear |-> Num(PredictGlobalMaxYear),
                         input |-> runPredictInput(q.dateStr, q.longitude, q.latitude,
                                                   Num(PredictGlobalMinYear),
                                                   Num(PredictGlobalMaxYear), hostTz) ]
    /\ UNCHANGED << wvars, enc, ppc, pollCsv, hostTz, rows, globalMinYear, globalMaxYear,
                    allFeatures, allTargets, pollModelFile, gvars >>

NextPollution ==
    \/ PollLoadAndEncode
    \/ PollFit
    \/ PollSave
    \/ RunPredict

SpecPollution == InitPollution /\ [][NextPollution]_vars

\* C4: the year bounds parseDateToFeatures uses at inference (predict.js) are
\* the bounds that were in effect when runTraining encoded the training rows.
C4_PredictUsesTrainingYearBounds ==
    pollQuery # <<>> =>
        /\ pollQuery.minYear = globalMinYear
        /\ pollQuery.maxYear = globalMaxYear

-----------------------------------------------------------------------------
(* The two encodings, each at its training site and at its inference site,   *)
(* applied to one input under one set of bounds                              *)

EncFirePoints ==
    FireQueries \cup { [lat |-> Deg(30), lon |-> Deg(-80), year |-> 2020, doy |-> 366] }

EncFireBoxes ==
    { PredictFireBounds, ComputeBounding(loadPositiveData(RowsScenario)),
      ComputeBounding(loadPositiveData(RowsOne)) }

EncDates ==
    { DateField(2025, 1, 1), DateField(2016, 3, 1), DateField(2023, 12, 31),
      DateField(2025, 7, 19), DateField(2024, 12, 31), Text }

EncYearBounds ==
    { << Num(PredictGlobalMinYear), Num(PredictGlobalMaxYear) >>,
      findMinMaxYear(<< PollRowA, PollRowB >>),
      findMinMaxYear(<< PollRowC >>) }

EncInputs ==
    { [kind |-> "wildfire", point |-> q, bounds |-> b, train |-> <<>>, predict |-> <<>>] :
          q \in EncFirePoints, b \in EncFireBoxes }
    \cup
    { [kind |-> "pollution", arg |-> [dateStr |-> d, longitude |-> NumField(-1229382),
                                        latitude |-> NumField(461382), tz |-> tz],
       yearBounds |-> yb, train |-> <<>>, predict |-> <<>>] :
          d \in EncDates, yb \in EncYearBounds, tz \in TimeZones }

InitEncode ==
    /\ FireIdle
    /\ PollIdle
    /\ enc \in EncInputs
    /\ GeoIdle

\* the training sites: the loop over fullData in the wildfire runTraining and
\* rowToFeatureTarget in the pollution train.js
EncodeAtTraining ==
    /\ enc # <<>>
    /\ enc.train = <<>>
    /\ enc' = [enc EXCEPT !.train =
          IF enc.kind = "wildfire"
          THEN EncodeTrainRow(NegRow(enc.point.lat, enc.point.lon, enc.point.year,
                                     enc.point.doy), enc.bounds)
          ELSE rowToFeatureTarget(PollRow(enc.arg.dateStr, enc.arg.latitude,
                                          enc.arg.longitude, TargetsAll),
                                  enc.yearBounds[1], enc.yearBounds[2],
                                  enc.arg.tz).inputFeatures]
    /\ UNCHANGED << wvars, pvars, gvars >>

\* the inference sites: predictFire and, in the pollution predict.js, the
\* command line's parseFloat followed by runPredict
EncodeAtInference ==
    /\ enc # <<>>
    /\ enc.predict = <<>>
    /\ enc' = [enc EXCEPT !.predict =
          IF enc.kind = "wildfire"
          THEN EncodePredictRow(enc.point.lat, enc.point.lon, enc.point.year,
                                enc.point.doy, enc.bounds)
          ELSE runPredictInput(enc.arg.dateStr, parseFloatField(enc.arg.longitude),
                               parseFloatField(enc.arg.latitude),
                               enc.yearBounds[1], enc.yearBounds[2], enc.arg.tz)]
    /\ UNCHANGED << wvars, pvars, gvars >>

NextEncode ==
    \/ EncodeAtTraining
    \/ EncodeAtInference

SpecEncode == InitEncode /\ [][NextEncode]_vars

\* the value a component has at its place in the wildfire vector
C5_Scaled(v, min, max) == IF max = min THEN Frac(0, 1) ELSE Frac(v - min, max - min)

\* the day of the year of a calendar date as counted on a host tz hours ahead
\* of UTC, kept in 1..366
C5_DayOfYear(d, tz) ==
    MathMax(1, MathMin(((HoursIntoYearUTC(d.y, d.m, d.d) + tz) \div 24) + 1, 366))

\* C5: with the same bounds, the training site and the inference site build
\* the same feature vector for the same input: the wildfire vector is
\* [scaled lat, scaled lon, scaled year, doy/366] and the pollution vector is
\* [yearScaled, monthSin, monthCos, daySin, dayCos, longitude, latitude], in
\* that order at both sites.
C5_SameVectorAtBothSites ==
    (enc # <<>> /\ enc.train # <<>> /\ enc.predict # <<>>) =>
        /\ enc.train = enc.predict
        /\ enc.kind = "wildfire" =>
              LET q == enc.point
                  b == enc.bounds
              IN enc.predict = << C5_Scaled(q.lat, b.latMin, b.latMax),
                                  C5_Scaled(q.lon, b.lonMin, b.lonMax),
                                  C5_Scaled(q.year, b.yearMin, b.yearMax),
                                  Frac(q.doy, 366) >>
        /\ (enc.kind = "pollution" /\ enc.arg.dateStr.k = "date") =>
              LET q == enc.arg
                  d == q.dateStr
              IN /\ Len(enc.predict) = 7
                 /\ enc.predict[1] = YearQuotient(d.y, enc.yearBounds[1], enc.yearBounds[2])
                 /\ enc.predict[2] = MathSin(d.m, 12)
                 /\ enc.predict[3] = MathCos(d.m, 12)
                 /\ enc.predict[4] = MathSin(C5_DayOfYear(d, q.tz), 366)
                 /\ enc.predict[5] = MathCos(C5_DayOfYear(d, q.tz), 366)
                 /\ enc.predict[6] = Num(q.longitude.v)
                 /\ enc.predict[7] = Num(q.latitude.v)

\* both sites have encoded a wildfire point under a box with a zero range, or
\* a pollution date whose day of the year depends on the host's time zone
C5_Witness ==
    /\ enc # <<>>
    /\ enc.train # <<>>
    /\ enc.predict # <<>>
    /\ \/ enc.kind = "wildfire" /\ enc.bounds.latMin = enc.bounds.latMax
       \/ /\ enc.kind = "pollution"
          /\ enc.arg.dateStr.k = "date"
          /\ enc.arg.tz < 0
          /\ enc.yearBounds[1] # Num(PredictGlobalMinYear)

\* the 1-indexed ordinal of a calendar date within its year
C15_Ordinal(d) == DaysBeforeMonth(d.y, d.m) + d.d

\* the five date features of a valid date: the year quotient, the month as the
\* date's month and the day of the year as the date's ordinal
C15_DateFeatures(f, d, minYear, maxYear) ==
    /\ f[1] = YearQuotient(d.y, minYear, maxYear)
    /\ f[2] = MathSin(d.m, 12) /\ f[3] = MathCos(d.m, 12)
    /\ d.m \in 1..12
    /\ f[4] = MathSin(C15_Ordinal(d), 366) /\ f[5] = MathCos(C15_Ordinal(d), 366)
    /\ C15_Ordinal(d) \in 1..366

\* C15: for every valid date YYYY-MM-DD and every time-zone offset of the
\* host, parseDateToFeatures takes the month as the date's month in 1..12 and
\* the day of the year as the date's 1-indexed ordinal in its own year, within
\* [1, 366]; 2025-07-19 under the bounds [1990, 2030] gives 35/40, month 7 and
\* day 200, in train.js and in predict.js alike.
C15_DayOfYearIsOrdinal ==
    (enc # <<>> /\ enc.kind = "pollution" /\ enc.arg.dateStr.k = "date") =>
        LET d == enc.arg.dateStr
        IN /\ enc.train # <<>> =>
                 C15_DateFeatures(enc.train, d, enc.yearBounds[1], enc.yearBounds[2])
           /\ enc.predict # <<>> =>
                 C15_DateFeatures(enc.predict, d, enc.yearBounds[1], enc.yearBounds[2])
           /\ (d = DateField(2025, 7, 19) /\ enc.predict # <<>>
                 /\ enc.yearBounds = << Num(1990), Num(2030) >>) =>
                 /\ enc.predict[1] = [t |-> "num", a |-> 35, b |-> 40]
                 /\ enc.predict[2].a = 7
                 /\ enc.predict[4].a = 200

\* C17: in the pollution pipeline a loaded row with a target column that is
\* missing or holds no number still yields exactly one (feature, target) pair,
\* with that component 0 and the other components as parsed; so there are as
\* many pairs as loaded rows.
C17_OnePairPerRowMissingTargetsZero ==
    ppc \in { "fit", "save", "done", "caught" } =>
        /\ Len(allFeatures) = Len(rows)
        /\ Len(allTargets) = Len(rows)
        /\ \A i \in 1..Len(rows) :
              /\ Len(allFeatures[i]) = 7
              /\ Len(allTargets[i]) = 16
              /\ \A j \in 1..16 :
                    allTargets[i][j] =
                        IF rows[i].targets[j].k = "num"
                        THEN Num(rows[i].targets[j].v)
                        ELSE Num(0)

\* the second loaded row has an empty 4th column and a 3rd column that holds no
\* number: both targets are 0, the 1st and 2nd are the numbers of the row
C17_Witness ==
    /\ ppc = "fit"
    /\ Len(rows) = 2
    /\ rows[2].targets[4] = Empty
    /\ rows[2].targets[3] = Text
    /\ Len(allTargets) = 2
    /\ allTargets[2][4] = Num(0)
    /\ allTargets[2][3] = Num(0)
    /\ allTargets[2][1] = Num(1)
    /\ allTargets[2][2] = Num(2)

\* a generator's return: what it hands over is what it has emitted, fewer than
\* its quota only after its whole budget; the quotas stay as they were split
\* and the run goes on to the next generator or to the assembly
C20_ReturnStep ==
    (pc \in GenPc /\ pc' # pc) =>
        /\ Len(negatives) <= TargetCount
        /\ Len(negatives) < TargetCount => attempts = AttemptBudget
        /\ counts' = counts
        /\ pc = "local" => pc' = "global" /\ localNegatives' = negatives
        /\ pc = "global" => pc' = "neverGrid" /\ globalNegatives' = negatives
        /\ pc = "never" => pc' = "assemble" /\ neverFireNegatives' = negatives

\* the quotas are those of the split and each generator delivers at most its
\* own, whatever the others fell short of; the assembled dataset is the
\* positives followed by what the three generators delivered
C20_QuotasAndDataset ==
    /\ counts # <<>> =>
          /\ counts = QuotaSplit(totalPos)
          /\ Len(localNegatives) <= counts.localNegCount
          /\ Len(globalNegatives) <= counts.globalNegCount
          /\ Len(neverFireNegatives) <= counts.neverFireNegCount
    /\ Assembled =>
          /\ Len(fullData) = totalPos + NegativeCount
          /\ SubSeq(fullData, 1, totalPos) = loadPositiveData(csvRows)
          /\ SubSeq(fullData, totalPos + 1, Len(fullData)) =
                localNegatives \o globalNegatives \o neverFireNegatives
    /\ pc \in GenPc \cup { "neverGrid", "assemble" } => ENABLED Next

\* C20: when a generator uses up its attempt budget and delivers fewer records
\* than its quota, the run does not fail and the shortfall is not given to
\* another generator: the later generators run with their original quotas, and
\* the assembled dataset has exactly the positives plus the negatives the three
\* generators delivered, positives first.
C20_UnderDeliveryTolerated == []C20_QuotasAndDataset /\ [][C20_ReturnStep]_vars

\* four positives, quotas 1, 1 and 2: the local generator delivers nothing, the
\* global generator its one record, and the dataset has the 4 positives first
C20_Witness ==
    /\ pc = "fit"
    /\ totalPos = 4
    /\ counts.localNegCount = 1
    /\ Len(localNegatives) = 0
    /\ counts.globalNegCount = 1
    /\ Len(globalNegatives) = 1
    /\ Len(fullData) = 5 + Len(neverFireNegatives)
    /\ \A i \in 1..4 : fullData[i].FIRE_SIZE > 0

\* a record's cell under latToCell/lonToCell holds a positive
C23_InOccupiedCell(row) ==
    \E p \in Range(positiveData) :
        /\ (p.LATITUDE - bounding.latMin) \div DegTicks
              = (row.LATITUDE - bounding.latMin) \div DegTicks
        /\ (p.LONGITUDE - bounding.lonMin) \div DegTicks
              = (row.LONGITUDE - bounding.lonMin) \div DegTicks

\* the clamping alone: a coordinate that the clamping changes stays in the
\* row or column of cells it was drawn for
C23_ClampKeepsCell ==
    (pc = "never" /\ draw.gen = "never") =>
        /\ draw.row.LATITUDE # draw.lat =>
              (draw.row.LATITUDE - bounding.latMin) \div DegTicks = draw.cell.cLat
        /\ draw.row.LONGITUDE # draw.lon =>
              (draw.row.LONGITUDE - bounding.lonMin) \div DegTicks = draw.cell.cLon

\* C23: every record emitted by createNeverFireNegatives has, after the
\* clamping into the bounding box, a latitude and longitude that latToCell and
\* lonToCell map to a grid cell without a positive, for every bounding box,
\* also one whose extent is not a whole number of cells.
C23_EmittedInEmptyCell ==
    pc \in { "never", "assemble" } =>
        /\ \A i \in 1..Len(negatives) : ~C23_InOccupiedCell(negatives[i])
        /\ \A i \in 1..Len(neverFireNegatives) : ~C23_InOccupiedCell(neverFireNegatives[i])

\* a positive lies in a cell that the two for loops over the grid enumerate
C24_InGrid(p) ==
    LET cLat == (p.LATITUDE - bounding.latMin) \div DegTicks
        cLon == (p.LONGITUDE - bounding.lonMin) \div DegTicks
    IN /\ 0 <= cLat /\ cLat < C11_CellsSpanning(bounding.latMax - bounding.latMin)
       /\ 0 <= cLon /\ cLon < C11_CellsSpanning(bounding.lonMax - bounding.lonMin)

\* the positives strictly inside the bounding box on both axes, or in a last
\* row and column of cells that are partial, are in the grid
C24_InteriorInGrid ==
    pc \in { "neverGrid", "never", "assemble" } =>
        \A p \in Range(positiveData) :
            ( /\ \/ p.LATITUDE < bounding.latMax
                 \/ (bounding.latMax - bounding.latMin) % DegTicks # 0
              /\ \/ p.LONGITUDE < bounding.lonMax
                 \/ (bounding.lonMax - bounding.lonMin) % DegTicks # 0 )
            => C24_InGrid(p)

\* C24: every positive is counted in a cell of the enumerated grid: 0 <=
\* latToCell(p.lat) < cellCountLat and 0 <= lonToCell(p.lon) < cellCountLon,
\* also for a positive on latMax or lonMax and for a bounding box whose extent
\* is an exact multiple of the cell size or zero.
C24_PositivesInGrid ==
    pc \in { "neverGrid", "never", "assemble" } =>
        \A p \in Range(positiveData) : C24_InGrid(p)

\* the wildfire runTraining with no valid row: it has returned before the
\* bounds, the generators, the encoding, the fit and the save
C18_WildfireAbortsOnNoRows ==
    (pc # "load" /\ Len(loadPositiveData(csvRows)) = 0) =>
        /\ pc = "aborted"
        /\ bounding = <<>>
        /\ counts = <<>>
        /\ negatives = <<>>
        /\ fullData = <<>>
        /\ XAll = <<>>
        /\ modelFile = "absent"

\* C18: when loading yields zero valid rows the training run aborts before it
\* computes any bounds, encodes any record, fits or saves a model; stated here
\* for the pollution runTraining, whose year bounds then stay as they were and
\* whose model file is never written.
C18_PollutionAbortsOnNoRows ==
    (ppc # "load" /\ Len(loadDataset(pollCsv)) = 0) =>
        /\ globalMinYear = Num(TrainPlaceholderMinYear)
        /\ globalMaxYear = Num(TrainPlaceholderMaxYear)
        /\ ppc \notin { "fit", "save", "done" }
        /\ pollModelFile = "absent"

\* a yearScaled that is a quotient with a divisor other than 0, within [0, 1]
C25_InUnitInterval(x) ==
    /\ x.t = "num"
    /\ x.b # 0
    /\ IF x.b > 0 THEN 0 <= x.a /\ x.a <= x.b ELSE x.b <= x.a /\ x.a <= 0

\* the rows of a dataset with valid dates of more than one year
C25_SeveralYears ==
    (ppc \in { "fit", "save", "done", "caught" }
        /\ globalMinYear.t = "num" /\ globalMaxYear.t = "num"
        /\ globalMinYear.a < globalMaxYear.a) =>
        \A i \in 1..Len(rows) :
            rows[i].Date.k = "date" => C25_InUnitInterval(allFeatures[i][1])

\* C25: in the pollution training run, with the global year bounds set from
\* findMinMaxYear, parseDateToFeatures divides by no zero and gives a
\* yearScaled in [0, 1] for every loaded row (with a valid date), for every
\* non-empty dataset, also one whose rows are all of the same year.
C25_YearScaledInUnitInterval ==
    ppc \in { "fit", "save", "done", "caught" } =>
        \A i \in 1..Len(rows) :
            rows[i].Date.k = "date" => C25_InUnitInterval(allFeatures[i][1])

\* train.js: what the caller of the pollution runTraining observes. The whole
\* body is inside try { ... } catch (err) { console.error(...) }: after the catch
\* block the async function returns, so its promise resolves exactly as it does
\* after "Done."; no path rejects it.
PollutionRunResolves == ppc \in { "done", "caught" }
\* a step in which model.fit or model.save raises
PollutionFitOrSaveRaises ==
    \/ ppc = "fit" /\ ppc' # "save"
    \/ ppc = "save" /\ ppc' # "done"

\* C19: when the external collaborator fails during a run (model fit, model
\* save or model load raises), the caller receives that error: the function
\* does not catch and swallow it, so the caller never observes a normal
\* completion after such a failure; stated here for the pollution runTraining.
C19_FailureReachesCaller ==
    [][PollutionFitOrSaveRaises => ~PollutionRunResolves']_vars

-----------------------------------------------------------------------------
(* The two loaders on their own, for every CSV file of up to MaxCsvRows rows *)

\* rows of firedata.csv: complete ones (a FIRE_SIZE of "0" is a non-empty
\* string), and the first of them with one of the five fields empty or absent
LoadFireRow == Row(10, Deg(30), Deg(-80), 2020, 100)
LoadFireRows ==
    { LoadFireRow, Row(0, Deg(31), Deg(-81), 2021, 150) }
    \cup { [LoadFireRow EXCEPT ![f] = <<>>] : f \in DOMAIN LoadFireRow }

\* rows of the pollution CSV: complete ones (a date that is no date is still a
\* non-empty string), and rows with one of the three fields empty or absent
LoadPollRows ==
    { PollRowA, PollRowC, PollRowBadDate, PollRowNoDate, PollRowNoLat, PollRowNoLon }

CsvFiles(rowSet) == UNION { [1..n -> rowSet] : n \in 0..MaxCsvRows }

InitLoad ==
    /\ \/ pc = "loadFire" /\ csvRows \in CsvFiles(LoadFireRows) /\ pollCsv = <<>>
       \/ pc = "loadPollution" /\ csvRows = <<>> /\ pollCsv \in CsvFiles(LoadPollRows)
    /\ positiveData = <<>>
    /\ bounding = <<>>
    /\ fireSet = {}
    /\ totalPos = 0
    /\ counts = <<>>
    /\ negatives = <<>>
    /\ attempts = 0
    /\ zeroFireCells = <<>>
    /\ draw = NoDraw
    /\ localNegatives = <<>>
    /\ globalNegatives = <<>>
    /\ neverFireNegatives = <<>>
    /\ fullData = <<>>
    /\ XAll = <<>>
    /\ modelFile = "absent"
    /\ fireQuery = <<>>
    /\ ppc = "idle"
    /\ hostTz = 0
    /\ rows = <<>>
    /\ globalMinYear = Num(TrainPlaceholderMinYear)
    /\ globalMaxYear = Num(TrainPlaceholderMaxYear)
    /\ allFeatures = <<>>
    /\ allTargets = <<>>
    /\ pollModelFile = "absent"
    /\ pollQuery = <<>>
    /\ EncIdle
    /\ GeoIdle

\* loadPositiveData() of the wildfire train.js, resolved
LoadFireCsv ==
    /\ pc = "loadFire"
    /\ positiveData' = loadPositiveData(csvRows)
    /\ pc' = "loadedFire"
    /\ UNCHANGED << csvRows, bounding, fireSet, totalPos, counts, negatives, attempts,
                    zeroFireCells, draw, localNegatives, globalNegatives,
                    neverFireNegatives, fullData, XAll, modelFile, fireQuery, pvars, enc, gvars >>

\* loadDataset(csvPath) of the pollution train.js, resolved
LoadPollutionCsv ==
    /\ pc = "loadPollution"
    /\ rows' = loadDataset(pollCsv)
    /\ pc' = "loadedPollution"
    /\ UNCHANGED << csvRows, positiveData, bounding, fireSet, totalPos, counts, negatives,
                    attempts, zeroFireCells, draw, localNegatives, globalNegatives,
                    neverFireNegatives, fullData, XAll, modelFile, fireQuery, ppc,
                    pollCsv, hostTz, globalMinYear, globalMaxYear, allFeatures,
                    allTargets, pollModelFile, pollQuery, enc, gvars >>

NextLoad == LoadFireCsv \/ LoadPollutionCsv

SpecLoad == InitLoad /\ [][NextLoad]_vars

\* a source row has all the required fields of its pipeline
C16_FireComplete(row) ==
    \A f \in { "FIRE_SIZE", "LATITUDE", "LONGITUDE", "FIRE_YEAR", "DISCOVERY_DOY" } :
        row[f] # <<>>
C16_PollComplete(row) ==
    \A f \in { "Date", "Latitude_Geocoded", "Longitude_Geocoded" } : row[f] # Empty

\* the positions of the complete rows of a file, and the k-th of them
C16_KeptFire(csv) == { i \in 1..Len(csv) : C16_FireComplete(csv[i]) }
C16_KeptPoll(csv) == { i \in 1..Len(csv) : C16_PollComplete(csv[i]) }
C16_Nth(kept, k) == CHOOSE i \in kept : Cardinality({ j \in kept : j <= i }) = k

\* C16: a source row that lacks a required field (FIRE_SIZE, LATITUDE,
\* LONGITUDE, FIRE_YEAR, DISCOVERY_DOY for the wildfire loader; Date,
\* Latitude_Geocoded, Longitude_Geocoded for the pollution loader) is left out
\* of the loaded list without an error, and every row that has them all is
\* kept, in the order of the input.
C16_LoadersKeepCompleteRowsInOrder ==
    /\ pc = "loadedFire" =>
          /\ Len(positiveData) = Cardinality(C16_KeptFire(csvRows))
          /\ \A k \in 1..Len(positiveData) :
                LET src == csvRows[C16_Nth(C16_KeptFire(csvRows), k)]
                IN \A f \in DOMAIN src : positiveData[k][f] = src[f][1]
    /\ pc = "loadedPollution" =>
          /\ Len(rows) = Cardinality(C16_KeptPoll(pollCsv))
          /\ \A k \in 1..Len(rows) :
                rows[k] = pollCsv[C16_Nth(C16_KeptPoll(pollCsv), k)]
    /\ pc \in { "loadFire", "loadPollution" } => ENABLED NextLoad

\* a wildfire file whose second row lacks DISCOVERY_DOY, between two complete
\* rows: the two complete rows are loaded, in their order
C16_Witness ==
    /\ pc = "loadedFire"
    /\ Len(csvRows) = 3
    /\ csvRows[2] = [LoadFireRow EXCEPT !.DISCOVERY_DOY = <<>>]
    /\ Len(positiveData) = 2
    /\ positiveData[1].FIRE_SIZE = 0
    /\ positiveData[2].FIRE_SIZE = 10

-----------------------------------------------------------------------------
(* geocodeBatch.js: the parsing of the Census response *)

\* A JavaScript string is the sequence of its characters. The two characters
\* the code tells apart are the double quote and the comma; a run of other
\* characters is kept as one element.
Quote == "\""
Comma == ","

\* JavaScript values of the geocoder: a string, or undefined
Str(chars) == [k |-> "string", chars |-> chars]
Undefined == [k |-> "undefined"]

\* the longest response given to parseCensusResponseCsv on its own, in lines
MaxResponseLines == 3

\* splitCsvLine: the for loop from position i on
RECURSIVE splitCsvLineFrom(_, _, _, _, _)
splitCsvLineFrom(line, i, current, inQuotes, result) ==
    IF i > Len(line) THEN Append(result, current)
    ELSE LET c == line[i]
         IN IF c = Quote
            THEN IF inQuotes /\ i + 1 <= Len(line) /\ line[i + 1] = Quote
                 THEN splitCsvLineFrom(line, i + 2, Append(current, Quote), inQuotes, result)
                 ELSE splitCsvLineFrom(line, i + 1, current, ~inQuotes, result)
            ELSE IF c = Comma /\ ~inQuotes
                 THEN splitCsvLineFrom(line, i + 1, <<>>, inQuotes, Append(result, current))
                 ELSE splitCsvLineFrom(line, i + 1, Append(current, c), inQuotes, result)

splitCsvLine(line) == splitCsvLineFrom(line, 1, <<>>, FALSE, <<>>)

\* str.replace(/^"|"$/g, ""): a leading and a trailing double quote removed
StripQuotes(str) ==
    LET noHead == IF Len(str) > 0 /\ str[1] = Quote THEN SubSeq(str, 2, Len(str)) ELSE str
    IN IF Len(noHead) > 0 /\ noHead[Len(noHead)] = Quote
       THEN SubSeq(noHead, 1, Len(noHead) - 1)
       ELSE noHead

\* str.split(",")[n] for n = 0, 1, ...: the piece after the n-th comma, or
\* undefined when there are fewer commas
RECURSIVE SplitCommaAt(_, _)
SplitCommaAt(str, n) ==
    LET commas == { j \in 1..Len(str) : str[j] = Comma }
        first == IF commas = {} THEN Len(str) + 1
                 ELSE CHOOSE j \in commas : \A h \in commas : j <= h
    IN IF n = 0 THEN Str(SubSeq(str, 1, first - 1))
       ELSE IF commas = {} THEN Undefined
       ELSE SplitCommaAt(SubSeq(str, first + 1, Len(str)), n - 1)

\* parts[n] of the code (0-based), undefined past the end
PartAt(parts, n) == IF n + 1 <= Len(parts) THEN Str(parts[n + 1]) ELSE Undefined
\* !value for a string or undefined
IsFalsyValue(value) == value = Undefined \/ value = Str(<<>>)

\* resultsMap[uid] = entry
ObjectSet(map, uid, entry) ==
    IF uid \in DOMAIN map THEN [map EXCEPT ![uid] = entry] ELSE map @@ (uid :> entry)
\* resultsMap[uid]
ObjectGet(map, uid) == IF uid \in DOMAIN map THEN map[uid] ELSE Undefined

\* the coordinates field of a response line, as the code locates it
CoordinatesField == 5
\* the body of the for loop of parseCensusResponseCsv
ParseLine(map, line) ==
    LET parts == splitCsvLine(line)
    IN IF IsFalsyValue(PartAt(parts, 0)) THEN map
       ELSE LET uid == StripQuotes(parts[1])
                coordinates == IF IsFalsyValue(PartAt(parts, CoordinatesField)) THEN <<>>
                               ELSE StripQuotes(parts[CoordinatesField + 1])
            IN ObjectSet(map, uid, [ longitude |-> SplitCommaAt(coordinates, 0),
                                     latitude |-> SplitCommaAt(coordinates, 1) ])

\* parseCensusResponseCsv; csvText is the sequence of the lines between the
\* line breaks, and filter(Boolean) drops the empty ones
RECURSIVE parseCensusResponseCsv(_)
parseCensusResponseCsv(csvText) ==
    IF csvText = <<>> THEN <<>>
    ELSE LET line == csvText[Len(csvText)]
             before == parseCensusResponseCsv(SubSeq(csvText, 1, Len(csvText) - 1))
         IN IF line = <<>> THEN before
            ELSE ParseLine(before, line)

\* response lines
Quoted(field) == << Quote >> \o field \o << Quote >>
RECURSIVE JoinComma(_)
JoinComma(fields) ==
    IF Len(fields) = 0 THEN <<>>
    ELSE IF Len(fields) = 1 THEN fields[1]
    ELSE fields[1] \o << Comma >> \o JoinComma(Tail(fields))

SampleAddress ==
    << "1645 E ROOSEVELT ST", Comma, " PHOENIX", Comma, " AZ", Comma, " 85006" >>
\* the sample response row of the comment above parseCensusResponseCsv
SampleResponseRow ==
    JoinComma(<< Quoted(<< "1234" >>), Quoted(SampleAddress), Quoted(SampleAddress),
                 Quoted(<< "Exact" >>), Quoted(<< "-112.043703" >>),
                 Quoted(<< "33.458472" >>), Quoted(<< "1111" >>), Quoted(<< "L" >>) >>)
\* a line as the batch geocoder writes it for a matched address: id, input
\* address, Match, Exact, matched address, "longitude,latitude", line id, side
CensusMatchRow(uid) ==
    JoinComma(<< Quoted(<< uid >>), Quoted(SampleAddress), Quoted(<< "Match" >>),
                 Quoted(<< "Exact" >>), Quoted(SampleAddress),
                 Quoted(<< "-112.043703", Comma, "33.458472" >>),
                 Quoted(<< "1111" >>), Quoted(<< "L" >>) >>)
\* and for an address it could not match
CensusNoMatchRow(uid) ==
    JoinComma(<< Quoted(<< uid >>), Quoted(SampleAddress), Quoted(<< "No_Match" >>) >>)
\* a line without an id
NoIdRow == << Comma, "x" >>

ResponseLines ==
    { SampleResponseRow, CensusMatchRow("1234"), CensusMatchRow("77"),
      CensusNoMatchRow("77"), NoIdRow, <<>> }

ResponseTexts == UNION { [1..n -> ResponseLines] : n \in 0..MaxResponseLines }

InitCensus ==
    /\ FireIdle
    /\ PollIdle
    /\ EncIdle
    /\ gpc = "parse"
    /\ inputCsv = <<>>
    /\ allRows = <<>>
    /\ chunkIndex = 0
    /\ batchResultCsv \in ResponseTexts
    /\ resultsMap = <<>>
    /\ finalResults = <<>>
    /\ outputCsv = "absent"

\* const resultsMap = parseCensusResponseCsv(batchResultCsv)
ParseResponse ==
    /\ gpc = "parse"
    /\ resultsMap' = parseCensusResponseCsv(batchResultCsv)
    /\ gpc' = "parsed"
    /\ UNCHANGED << wvars, pvars, enc, inputCsv, allRows, chunkIndex, batchResultCsv,
                    finalResults, outputCsv >>

NextCensus == ParseResponse

SpecCensus == InitCensus /\ [][NextCensus]_vars

\* the last non-empty line of the response that starts with the id uid
C22_LastLineOf(csvText, uid) ==
    LET at == { j \in 1..Len(csvText) :
                   /\ Len(csvText[j]) >= 3
                   /\ SubSeq(csvText[j], 1, 3) = Quoted(<< uid >>) }
    IN IF at = {} THEN <<>> ELSE csvText[CHOOSE j \in at : \A h \in at : h <= j]

\* every id whose last line is a matched line of the geocoder's own format has
\* that line's longitude and latitude
C22_CensusFormatLines ==
    gpc = "parsed" =>
        \A uid \in { "1234", "77" } :
            C22_LastLineOf(batchResultCsv, uid) = CensusMatchRow(uid) =>
                ObjectGet(resultsMap, << uid >>) =
                    [ longitude |-> Str(<< "-112.043703" >>),
                      latitude |-> Str(<< "33.458472" >>) ]

\* C22: parseCensusResponseCsv maps each response line to resultsMap[uniqueId]
\* = {longitude, latitude} holding that line's coordinates; for the sample
\* response row documented above the function the result is resultsMap["1234"]
\* = {longitude: "-112.043703", latitude: "33.458472"}.
C22_SampleRowCoordinates ==
    gpc = "parsed" =>
        /\ C22_LastLineOf(batchResultCsv, "1234") = SampleResponseRow =>
              ObjectGet(resultsMap, << "1234" >>) =
                  [ longitude |-> Str(<< "-112.043703" >>),
                    latitude |-> Str(<< "33.458472" >>) ]
        /\ C22_CensusFormatLines

-----------------------------------------------------------------------------
(* geocodeBatch.js: main, chunk by chunk *)

BATCH_SIZE == 9500
\* the files read have up to MaxChunks full chunks and one row more
MaxChunks == 2

\* a row of the input file; Index is the only column main's result depends on,
\* the address columns go to the geocoder
InputRow(index) == [Index |-> index]

GeoRowCounts ==
    { 0, 1, 2, 3, BATCH_SIZE - 1, BATCH_SIZE, BATCH_SIZE + 1, MaxChunks * BATCH_SIZE,
      MaxChunks * BATCH_SIZE + 1 }

\* files without an Index column, and files with one: twice the same Index and
\* once an empty one; an Index that counts from 0
GeoInputs ==
    { [k \in 1..n |-> InputRow(<<>>)] : n \in GeoRowCounts }
    \cup { << InputRow(<< "7" >>), InputRow(<< "7" >>), InputRow(<<>>) >>,
           << InputRow(<< "0" >>), InputRow(<< "1" >>), InputRow(<< "2" >>) >> }

InitGeocode ==
    /\ FireIdle
    /\ PollIdle
    /\ EncIdle
    /\ gpc = "read"
    /\ inputCsv \in GeoInputs
    /\ allRows = <<>>
    /\ chunkIndex = 0
    /\ batchResultCsv = <<>>
    /\ resultsMap = <<>>
    /\ finalResults = <<>>
    /\ outputCsv = "absent"

\* const totalChunks = Math.ceil(allRows.length / BATCH_SIZE)
TotalChunks(n) == MathCeilDiv(n, BATCH_SIZE)

\* main from the reading of the CSV to the for loop: each row gets its
\* __uniqueId; Object.keys(firstRow) throws when no row was read
ReadCsv ==
    /\ gpc = "read"
    /\ allRows' = [k \in 1..Len(inputCsv) |->
                      [ __uniqueId |-> IF inputCsv[k].Index # <<>> THEN inputCsv[k].Index
                                       ELSE << ToString(k) >> ]]
    /\ gpc' = IF Len(inputCsv) = 0 THEN "threw" ELSE "loop"
    /\ UNCHANGED << wvars, pvars, enc, inputCsv, chunkIndex, batchResultCsv, resultsMap,
                    finalResults, outputCsv >>

\* a chunk that ends one row after its BATCH_SIZE rows
ChunkEndOneMore(start, n) == MathMin(start + BATCH_SIZE + 1, n)
\* const end = Math.min(start + BATCH_SIZE, allRows.length)
ChunkEnd(start, n) == MathMin(start + BATCH_SIZE, n)

\* const start = i * BATCH_SIZE
ChunkStart(i) == i * BATCH_SIZE
\* allRows.slice(start, end) for chunk i
ChunkRows(all, i) == SubSeq(all, ChunkStart(i) + 1, ChunkEnd(ChunkStart(i), Len(all)))

\* the body of "for (const row of chunkRows)"
AttachMatch(row, map) ==
    LET match == ObjectGet(map, row.__uniqueId)
    IN IF match # Undefined
       THEN [ __uniqueId |-> row.__uniqueId, __longitude |-> match.longitude,
              __latitude |-> match.latitude ]
       ELSE [ __uniqueId |-> row.__uniqueId, __longitude |-> Str(<<>>),
              __latitude |-> Str(<<>>) ]

\* responses of the geocoder to a chunk: no line at all; or an unmatched line
\* for the first row, an empty line, a matched line for the last row and a
\* matched line for the id 0
ChunkResponses(chunkRows) ==
    LET firstId == chunkRows[1].__uniqueId[1]
        lastId == chunkRows[Len(chunkRows)].__uniqueId[1]
    IN { <<>>,
         << CensusNoMatchRow(firstId), <<>>, CensusMatchRow(lastId), CensusMatchRow("0") >> }

\* one iteration of the for loop of main: sendBatchToCensus resolves with a
\* response or rejects, and the error is thrown again
ProcessChunk ==
    /\ gpc = "loop"
    /\ chunkIndex < TotalChunks(Len(allRows))
    /\ \/ /\ gpc' = "threw"
          /\ UNCHANGED << chunkIndex, batchResultCsv, resultsMap, finalResults >>
       \/ \E response \in ChunkResponses(ChunkRows(allRows, chunkIndex)) :
             /\ batchResultCsv' = response
             /\ resultsMap' = parseCensusResponseCsv(response)
             /\ \E chunkRows \in { ChunkRows(allRows, chunkIndex) } :
                   finalResults' = finalResults \o
                       [k \in 1..Len(chunkRows) |-> AttachMatch(chunkRows[k], resultsMap')]
             /\ chunkIndex' = chunkIndex + 1
             /\ gpc' = "loop"
    /\ UNCHANGED << wvars, pvars, enc, inputCsv, allRows, outputCsv >>

\* await csvWriter.writeRecords(finalResults), resolved
WriteFinalCsv ==
    /\ gpc = "loop"
    /\ ~(chunkIndex < TotalChunks(Len(allRows)))
    /\ outputCsv' = finalResults
    /\ gpc' = "done"
    /\ UNCHANGED << wvars, pvars, enc, inputCsv, allRows, chunkIndex, batchResultCsv,
                    resultsMap, finalResults >>

NextGeocode == ReadCsv \/ ProcessChunk \/ WriteFinalCsv

SpecGeocode == InitGeocode /\ [][NextGeocode]_vars

\* the rows done so far are the first rows of the input; the final result is
\* the rows of the input in its order
C21_ResultsInInputOrder ==
    /\ gpc \in { "loop", "done", "threw" } =>
          Len(finalResults) = MathMin(chunkIndex * 9500, Len(allRows))
    /\ gpc = "done" =>
          \A k \in 1..Len(allRows) : finalResults[k].__uniqueId = allRows[k].__uniqueId

\* at the end ceil(n / 9500) chunks were processed, the result has the n rows
\* and they are what is written; no file is written otherwise
C21_AllRowsOnce ==
    /\ gpc = "done" =>
          /\ Len(allRows) >= 1
          /\ 9500 * chunkIndex >= Len(allRows)
          /\ 9500 * (chunkIndex - 1) < Len(allRows)
          /\ Len(finalResults) = Len(allRows)
          /\ outputCsv = finalResults
    /\ gpc # "done" => outputCsv = "absent"
    /\ gpc = "threw" => ~ENABLED NextGeocode

\* a chunk holds the next rows of the input, at least 1 and at most 9500; each
\* gets the coordinates of the response's entry for its id, or empty strings
C21_ChunkStep ==
    (gpc = "loop" /\ gpc' = "loop") =>
        LET from == Len(finalResults)
            to == Len(finalResults')
        IN /\ chunkIndex' = chunkIndex + 1
           /\ from = 9500 * chunkIndex
           /\ to - from \in 1..9500
           /\ to < Len(allRows) => to - from = 9500
           /\ SubSeq(finalResults', 1, from) = finalResults
           /\ \A k \in (from + 1)..to :
                 LET uid == allRows[k].__uniqueId
                     row == finalResults'[k]
                 IN /\ row.__uniqueId = uid
                    /\ IF uid \in DOMAIN resultsMap'
                       THEN /\ row.__longitude = resultsMap'[uid].longitude
                            /\ row.__latitude = resultsMap'[uid].latitude
                       ELSE /\ row.__longitude = Str(<<>>)
                            /\ row.__latitude = Str(<<>>)

\* a failed send throws: nothing is added and the run is over
C21_FailStep ==
    (gpc = "loop" /\ gpc' = "threw") =>
        finalResults' = finalResults /\ outputCsv' = "absent"

====
